---------------------------- MODULE Spec2Model ----------------------------
(***************************************************************************)
(* Model of the gift-event to audio-playback pipeline of tiktokAudioGift:  *)
(*   electron/services/overlay.ts  OverlayServer (queue tracker, token     *)
(*                                 table, rate limiter, broadcast)         *)
(*                                 and the overlay page script it serves   *)
(*   electron/services/tiktok.ts   TikTokService (gift deduplication)      *)
(*   electron/services/storage.ts  StorageService (mappings, volumes)      *)
(*   electron/main.ts              giftFinal handler and repeat timers     *)
(*                                                                         *)
(* Units: times are milliseconds; volumes are percent (100 = 1.0), the     *)
(* product of two volumes is in 1/10000; durations are tenths of a second. *)
(* Strings that the code inspects or encodes (paths, tokens, URLs, dedup   *)
(* keys) are sequences of one-character strings.                           *)
(***************************************************************************)
EXTENDS Integers, Sequences, FiniteSets, TLC

VARIABLES
    \* ---- OverlayServer (overlay.ts:23-41)
    clients,              \* Set<WebSocket>: the connected overlay clients
    audioFiles,           \* Map token -> absolute path
    queueSize,
    totalInBatch,
    currentPlaying,
    totalDurationPlayed,
    audioCount,
    pendingDurations,     \* number[] used as a FIFO
    lastBroadcast,        \* the last message handed to broadcast() and its receivers
    queueProgressEvent,   \* the last 'queueProgress' event emitted
    lastRegistered,       \* the last registerAudioFile call: its argument and result
    lastResponse,         \* the last answer of GET /audio/:id
    rateLimit,            \* Map ip -> {count, resetTime} of the rate-limit middleware
    lastRate,             \* per address: the middleware's answer to its last request
    now,                  \* Date.now()
    \* ---- history of the tracker's calls (observation only)
    hEnqueued,            \* playAudio calls so far
    hOutstanding,         \* playAudio calls minus audio-ended messages
    hMatched,             \* FALSE once an audio-ended arrived with nothing outstanding
    hCleared,             \* TRUE once clearQueue() was called
    \* ---- history of the HTTP side (observation only)
    hIssued,              \* the <<path, url>> pairs registerAudioFile has returned
    hWinStart,            \* per address: when its current fixed window opened
    hWinRequests,         \* per address: its requests in that window
    hWinPassed,           \* per address: those of them passed on (next())
    hSecondPass,          \* per address: time of the second pass of that window
    hPrevSecond,          \* per address: the same for the previous window, if it was full
    \* ---- TikTokService (tiktok.ts:40-46)
    recentGifts,          \* Map dedup key -> timestamp of the last forwarded gift
    lastGift,             \* the last GIFT message handled, whether giftFinal was emitted
                          \* and whether the dedup map knew its key
    tiktok,               \* the fields connection, status and currentUsername
    attempts,             \* the TikTokLiveConnection objects made so far, by state
    emitted,              \* the events emitted by the service's last connection step
    hFeed,                \* connect() calls so far, failures, drops, the last step
    \* ---- main.ts and StorageService
    win,                  \* the main window: "open", "destroyed" or "null"
    quit,                 \* app.quit() was called
    platform,             \* process.platform
    renderer,             \* the last payload the renderer received, per channel
    timers,               \* the pending setInterval closures, by giftFinal event
    store,                \* the settings kept by electron-store
    \* ---- history of the gift pipeline (observation only)
    hGifts,               \* GIFT messages handled so far
    hForwardAt,           \* per <<userId, giftId, repeatCount>>: when it was last forwarded
    hPrevForward,         \* that time for the last message's triple, before the message
    hDecisions,           \* per triple: the forward decisions of its terminal messages
    hNonFinal,            \* the triples of the non-final messages handled so far
    hEvents,              \* per giftFinal event: what was seen when it was handled
    hLastDispatch,        \* the last playAudio call made for a gift
    hVolumeOps,           \* settings changes made over IPC so far
    \* ---- the overlay pages and their sockets (overlay.ts:401-611)
    page,                 \* per client: the script state of its overlay page
    wire,                 \* per client: server messages not yet handled by the page
    uplink,               \* per client: audio-ended messages not yet handled by the server
    \* ---- history of the pages and the sockets (observation only)
    hPage,                \* per client: what its page received, started, aborted, reported
    hBatch,               \* the current batch: its items, the audio-ended messages it got,
                          \* and the dispatches made before the last clearQueue()
    hBroadcasts,          \* broadcast() calls so far
    hJoined,              \* per client: hBroadcasts when it connected
    \* ---- the renderer's view of the settings (storage.ts:57-89)
    settingsRead,         \* the last result of getSettings(), and what it was read from
    testResult            \* the last test:triggerGift call: its argument and its result

overlayVars == <<clients, audioFiles, queueSize, totalInBatch, currentPlaying,
                 totalDurationPlayed, audioCount, pendingDurations,
                 lastBroadcast, queueProgressEvent>>
historyVars == <<hEnqueued, hOutstanding, hMatched, hCleared>>
httpVars == <<lastRegistered, lastResponse, rateLimit, lastRate>>
httpHistoryVars == <<hIssued, hWinStart, hWinRequests, hWinPassed, hSecondPass, hPrevSecond>>

rateSideVars == <<lastResponse, rateLimit, lastRate, hWinStart, hWinRequests,
                  hWinPassed, hSecondPass, hPrevSecond>>
feedVars == <<tiktok, attempts, emitted, hFeed>>
tiktokVars == <<recentGifts, lastGift, feedVars>>
mainVars == <<win, quit, platform, renderer, timers, store>>
appHistoryVars == <<hGifts, hForwardAt, hPrevForward, hDecisions, hNonFinal, hEvents,
                    hLastDispatch, hVolumeOps>>
appVars == <<tiktokVars, mainVars, appHistoryVars>>

pageVars == <<page, wire, uplink, hPage, hBatch, hBroadcasts, hJoined>>

vars == <<overlayVars, historyVars, httpVars, now, httpHistoryVars, appVars, pageVars,
         settingsRead, testResult>>

-----------------------------------------------------------------------------
(* Bounds of the exploration *)

ClockStart == 1        \* Date.now() when the process starts (positive)
MaxExcess == 1         \* requests explored beyond MAX_REQUESTS in one window
MaxPlays == 3          \* direct playAudio calls explored; also the broadcasts before a clearQueue
MaxGifts == 3          \* GIFT messages of the feed explored
MaxEvents == 1         \* giftFinal events explored by the gift specifications
MaxVolumeOps == 1      \* volume changes explored
MaxConnects == 3       \* connect() calls explored

-----------------------------------------------------------------------------
(* Characters and strings *)

\* The byte value (ASCII / UTF-8) of the characters the model's strings use.
CharCode(c) ==
    CASE c = "-" -> 45  [] c = "." -> 46  [] c = "/" -> 47
      [] c = "0" -> 48  [] c = "1" -> 49  [] c = "2" -> 50  [] c = "3" -> 51
      [] c = "4" -> 52  [] c = "7" -> 55  [] c = "9" -> 57
      [] c = "M" -> 77  [] c = "P" -> 80
      [] c = "a" -> 97  [] c = "b" -> 98  [] c = "c" -> 99  [] c = "f" -> 102
      [] c = "g" -> 103 [] c = "l" -> 108 [] c = "m" -> 109 [] c = "o" -> 111
      [] c = "p" -> 112 [] c = "t" -> 116 [] c = "v" -> 118 [] c = "w" -> 119
      [] c = "x" -> 120

\* String.prototype.toLowerCase on one character (the /i flag of the regexes).
LowerChar(c) ==
    CASE c = "M" -> "m" [] c = "P" -> "p" [] OTHER -> c

Lower(s) == [i \in 1..Len(s) |-> LowerChar(s[i])]

Bytes(s) == [i \in 1..Len(s) |-> CharCode(s[i])]

\* The base64url alphabet (RFC 4648 section 5), sextet n at index n+1.
B64UrlAlphabet ==
    << "A","B","C","D","E","F","G","H","I","J","K","L","M","N","O","P",
       "Q","R","S","T","U","V","W","X","Y","Z","a","b","c","d","e","f",
       "g","h","i","j","k","l","m","n","o","p","q","r","s","t","u","v",
       "w","x","y","z","0","1","2","3","4","5","6","7","8","9","-","_" >>

B64Char(n) == B64UrlAlphabet[n + 1]

\* A base64 encoder that forgets the final group of fewer than three bytes.
RECURSIVE Base64UrlBytes_DropsRemainder(_)
Base64UrlBytes_DropsRemainder(b) ==
    IF Len(b) < 3 THEN << >>
    ELSE
        << B64Char(b[1] \div 4),
           B64Char((b[1] % 4) * 16 + (b[2] \div 16)),
           B64Char((b[2] % 16) * 4 + (b[3] \div 64)),
           B64Char(b[3] % 64) >> \o Base64UrlBytes_DropsRemainder(SubSeq(b, 4, Len(b)))

\* Buffer.toString('base64url'): three bytes to four sextets, no padding.
RECURSIVE Base64UrlBytes(_)
Base64UrlBytes(b) ==
    IF Len(b) = 0 THEN << >>
    ELSE IF Len(b) = 1 THEN
        << B64Char(b[1] \div 4), B64Char((b[1] % 4) * 16) >>
    ELSE IF Len(b) = 2 THEN
        << B64Char(b[1] \div 4),
           B64Char((b[1] % 4) * 16 + (b[2] \div 16)),
           B64Char((b[2] % 16) * 4) >>
    ELSE
        << B64Char(b[1] \div 4),
           B64Char((b[1] % 4) * 16 + (b[2] \div 16)),
           B64Char((b[2] % 16) * 4 + (b[3] \div 64)),
           B64Char(b[3] % 64) >> \o Base64UrlBytes(SubSeq(b, 4, Len(b)))

-----------------------------------------------------------------------------
(* Paths, audio extensions, tokens (overlay.ts:43-53, 105-120) *)

PathA    == << "/","m","/","a",".","m","p","3" >>       \* /m/a.mp3
PathB    == << "/","m","/","b",".","M","P","3" >>       \* /m/b.MP3
PathTxt  == << "/","m","/","a",".","t","x","t" >>       \* /m/a.txt
PathTail == << "/","m","/","a",".","m","p","3","x" >>   \* /m/a.mp3x
PathDot  == << "/","m","/",".","m","p","3" >>           \* /m/.mp3

AudioExts == { << "m","p","3" >>, << "w","a","v" >>, << "o","g","g" >>,
               << "m","4","a" >>, << "f","l","a","c" >> }

EndsWith(s, suffix) ==
    /\ Len(s) >= Len(suffix)
    /\ SubSeq(s, Len(s) - Len(suffix) + 1, Len(s)) = suffix

\* /\.(mp3|wav|ogg|m4a|flac)$/i.test(audioPath)
HasAudioExtension(audioPath) ==
    \E ext \in AudioExts : EndsWith(Lower(audioPath), << "." >> \o ext)

\* The id of registerAudioFile: Buffer.from(audioPath).toString('base64url')
TokenOf(audioPath) == Base64UrlBytes(Bytes(audioPath))

AudioRoute == << "/","a","u","d","i","o","/" >>

\* The value registerAudioFile returns: '' or `/audio/${id}`.
RegisterAudioFileUrl(audioPath) ==
    IF HasAudioExtension(audioPath) THEN AudioRoute \o TokenOf(audioPath) ELSE << >>

\* The token table after registerAudioFile(audioPath).
RegisterAudioFileTable(table, audioPath) ==
    IF HasAudioExtension(audioPath)
    THEN [id \in DOMAIN table \cup {TokenOf(audioPath)} |->
             IF id = TokenOf(audioPath) THEN audioPath ELSE table[id]]
    ELSE table

-----------------------------------------------------------------------------
(* OverlayServer: clients, broadcast, queue tracker (overlay.ts:162-310) *)

ClientIds == { "c1", "c2" }

NoDuration == -1                   \* an audio-ended message without a duration field
QueueDurations == { 0, 14 }        \* durations given to playAudio (0 = the default)
EndedDurations == { NoDuration, 0, 12 }
QueuePaths == { PathA, PathTxt }

NoMessage == [type |-> "none"]

\* A mutation of broadcast(): the readyState test is left out.
Broadcast_All(message) ==
    lastBroadcast' = [message |-> message, to |-> DOMAIN clients]

\* broadcast(): the message goes to every client whose readyState is OPEN.
Broadcast(message) ==
    lastBroadcast' = [message |-> message,
                      to |-> { c \in DOMAIN clients : clients[c] = "OPEN" }]

\* wss.on('connection')
ClientConnect(c) ==
    /\ c \notin DOMAIN clients
    /\ clients' = [x \in DOMAIN clients \cup {c} |->
                      IF x = c THEN "OPEN" ELSE clients[x]]
    /\ UNCHANGED <<audioFiles, queueSize, totalInBatch, currentPlaying,
                   totalDurationPlayed, audioCount, pendingDurations,
                   lastBroadcast, queueProgressEvent, historyVars,
                   httpVars, now, httpHistoryVars>>
    /\ UNCHANGED appVars

\* The socket starts its closing handshake: readyState leaves OPEN before 'close'.
ClientClosing(c) ==
    /\ c \in DOMAIN clients
    /\ clients[c] = "OPEN"
    /\ clients' = [clients EXCEPT ![c] = "CLOSING"]
    /\ UNCHANGED <<audioFiles, queueSize, totalInBatch, currentPlaying,
                   totalDurationPlayed, audioCount, pendingDurations,
                   lastBroadcast, queueProgressEvent, historyVars,
                   httpVars, now, httpHistoryVars>>
    /\ UNCHANGED appVars

\* ws.on('close') and ws.on('error'): the client leaves the set.
ClientClose(c) ==
    /\ c \in DOMAIN clients
    /\ clients' = [x \in DOMAIN clients \ {c} |-> clients[x]]
    /\ UNCHANGED <<audioFiles, queueSize, totalInBatch, currentPlaying,
                   totalDurationPlayed, audioCount, pendingDurations,
                   lastBroadcast, queueProgressEvent, historyVars,
                   httpVars, now, httpHistoryVars>>
    /\ UNCHANGED appVars

Max(a, b) == IF a >= b THEN a ELSE b
Min(a, b) == IF a <= b THEN a ELSE b

\* Maps (new Map(), get/has, set) as functions.
EmptyMap == [x \in {} |-> 0]

HasKey(f, k) == \E x \in DOMAIN f : x = k

SetKey(f, k, v) == [x \in DOMAIN f \cup {k} |-> IF x = k THEN v ELSE f[x]]

\* playAudio: totalInBatch after the call (wasEmpty = the queue was empty before it).
TotalAfterPlay_NoRestart(wasEmpty, total) == total + 1
TotalAfterPlay(wasEmpty, total) == IF wasEmpty THEN 1 ELSE total + 1

\* playAudio: currentPlaying after the call.
PlayingAfterPlay_NoReset(wasEmpty, playing) == playing
PlayingAfterPlay(wasEmpty, playing) == IF wasEmpty THEN 0 ELSE playing

\* audio-ended: this.queueSize = Math.max(0, this.queueSize - 1)
SizeAfterEnded_Off(size) == Max(0, size - 2)
SizeAfterEnded(size) == Max(0, size - 1)

\* audio-ended: if (this.queueSize === 0), tested after the decrement.
BatchDrained_Negative(size) == size < 0
BatchDrained(size) == size = 0

\* playAudio(giftId, giftName, username, audioPath, volume, duration):
\* its effect on the server, shared by every caller.
OverlayPlayAudio(giftId, giftName, username, audioPath, volume, duration) ==
    /\ audioFiles' = RegisterAudioFileTable(audioFiles, audioPath)
    /\ Broadcast([type |-> "play-audio",
                  audioUrl |-> RegisterAudioFileUrl(audioPath),
                  volume |-> volume, giftName |-> giftName,
                  username |-> username, giftId |-> giftId])
    /\ queueSize' = queueSize + 1
    /\ pendingDurations' = Append(pendingDurations, duration)
    /\ totalInBatch' = TotalAfterPlay(queueSize = 0, totalInBatch)
    /\ currentPlaying' = PlayingAfterPlay(queueSize = 0, currentPlaying)
    /\ hEnqueued' = hEnqueued + 1
    /\ hOutstanding' = hOutstanding + 1
    /\ lastRegistered' = [path |-> audioPath, url |-> RegisterAudioFileUrl(audioPath)]
    /\ hIssued' = hIssued \cup {<<audioPath, RegisterAudioFileUrl(audioPath)>>}
    /\ UNCHANGED <<clients, totalDurationPlayed, audioCount,
                   queueProgressEvent, hMatched, hCleared>>

\* A direct call of playAudio.
PlayAudio(audioPath, duration) ==
    /\ hEnqueued < MaxPlays
    /\ OverlayPlayAudio(<< "9", "9" >>, "Rose", "user", audioPath, 10000, duration)
    /\ UNCHANGED <<lastResponse, rateLimit, lastRate, now,
                   hWinStart, hWinRequests, hWinPassed, hSecondPass, hPrevSecond>>
    /\ UNCHANGED appVars

\* A mutation of the duration test: every message counts as carrying one.
HasDuration_Always(duration) == TRUE

\* msg.duration && typeof msg.duration === 'number'
HasDuration(duration) == duration # NoDuration /\ duration # 0

\* The tracker fields after the audio-ended handler (overlay.ts:180-206) has
\* handled a message with this duration in the current state.
AfterEnded(duration) ==
    LET played == IF HasDuration(duration)
                  THEN totalDurationPlayed + duration ELSE totalDurationPlayed
        count == IF HasDuration(duration) THEN audioCount + 1 ELSE audioCount
        pending == IF Len(pendingDurations) > 0
                   THEN Tail(pendingDurations) ELSE pendingDurations
        size == SizeAfterEnded(queueSize)
        playing == currentPlaying + 1
    IN  [queueSize |-> size,
         queueProgressEvent |-> [current |-> playing, total |-> totalInBatch,
                                 remaining |-> size],
         currentPlaying |-> IF BatchDrained(size) THEN 0 ELSE playing,
         totalInBatch |-> IF BatchDrained(size) THEN 0 ELSE totalInBatch,
         totalDurationPlayed |-> IF BatchDrained(size) THEN 0 ELSE played,
         audioCount |-> IF BatchDrained(size) THEN 0 ELSE count,
         pendingDurations |-> IF BatchDrained(size) THEN << >> ELSE pending]

\* ws.on('message') with msg.type === 'audio-ended', from connected client c.
AudioEnded(c, duration) ==
    /\ c \in DOMAIN clients
    /\ queueSize' = AfterEnded(duration).queueSize
    /\ queueProgressEvent' = AfterEnded(duration).queueProgressEvent
    /\ currentPlaying' = AfterEnded(duration).currentPlaying
    /\ totalInBatch' = AfterEnded(duration).totalInBatch
    /\ totalDurationPlayed' = AfterEnded(duration).totalDurationPlayed
    /\ audioCount' = AfterEnded(duration).audioCount
    /\ pendingDurations' = AfterEnded(duration).pendingDurations
    /\ hMatched' = (hMatched /\ hOutstanding > 0)
    /\ hOutstanding' = Max(0, hOutstanding - 1)
    /\ UNCHANGED <<clients, audioFiles, lastBroadcast, hEnqueued, hCleared,
                   httpVars, now, httpHistoryVars>>
    /\ UNCHANGED appVars

\* clearQueue()
ClearQueue ==
    /\ Broadcast([type |-> "clear-queue"])
    /\ queueSize' = 0
    /\ hCleared' = TRUE
    /\ UNCHANGED <<clients, audioFiles, totalInBatch, currentPlaying,
                   totalDurationPlayed, audioCount, pendingDurations,
                   queueProgressEvent, hEnqueued, hOutstanding, hMatched,
                   httpVars, now, httpHistoryVars>>
    /\ UNCHANGED appVars

RECURSIVE SumSeq(_)
SumSeq(s) == IF Len(s) = 0 THEN 0 ELSE Head(s) + SumSeq(Tail(s))

\* Math.round of a non-negative number of tenths, in whole seconds.
RoundTenths(t) == (t + 5) \div 10

\* getQueueProgress()
GetQueueProgress ==
    [current |-> currentPlaying, total |-> totalInBatch, remaining |-> queueSize,
     estimatedSeconds |-> RoundTenths(SumSeq(pendingDurations))]

-----------------------------------------------------------------------------
(* HTTP side of the OverlayServer: GET /audio/:id and the rate limiter
   (overlay.ts:63-86, 96-137) *)

PathM4a   == << "/","m","/","a",".","m","4","a" >>       \* /m/a.m4a
PathSlash == << "/","m","/","/","a",".","m","p","3" >>   \* /m//a.mp3

TokenPaths == { PathA, PathB, PathM4a, PathSlash, PathTxt, PathTail, PathDot }

\* Tokens a client may ask for: those of the paths, and two that no path yields.
GarbageTokens == { << "A","A","A","A" >>, << "L","2","0" >> }
RequestTokens == { TokenOf(p) : p \in TokenPaths } \cup GarbageTokens

\* req.params.id of the route /audio/:id for a URL registerAudioFile returned.
RouteParam(url) == SubSeq(url, Len(AudioRoute) + 1, Len(url))

\* path.normalize on the model's paths: runs of separators collapse to one.
RECURSIVE PathNormalize(_)
PathNormalize(path) ==
    IF Len(path) < 2 THEN path
    ELSE IF path[1] = "/" /\ path[2] = "/" THEN PathNormalize(Tail(path))
    ELSE << path[1] >> \o PathNormalize(Tail(path))

RECURSIVE LastIndexOf(_, _)
LastIndexOf(s, c) ==
    IF Len(s) = 0 THEN 0
    ELSE IF s[Len(s)] = c THEN Len(s)
    ELSE LastIndexOf(SubSeq(s, 1, Len(s) - 1), c)

\* The last path segment: audioPath.split(/[/\\]/).pop(), path.basename.
BaseName(path) == SubSeq(path, LastIndexOf(path, "/") + 1, Len(path))

\* path.extname: from the last dot of the base name; '' when there is none or the
\* base name starts with it.
ExtName(path) ==
    LET base == BaseName(path)
        dot == LastIndexOf(base, ".")
    IN  IF dot <= 1 THEN << >> ELSE SubSeq(base, dot, Len(base))

\* AUDIO_CONTENT_TYPES[ext], "" when the extension is not listed.
AudioContentType(ext) ==
    CASE ext = << ".","m","p","3" >> -> "audio/mpeg"
      [] ext = << ".","w","a","v" >> -> "audio/wav"
      [] ext = << ".","o","g","g" >> -> "audio/ogg"
      [] ext = << ".","m","4","a" >> -> "audio/mp4"
      [] ext = << ".","f","l","a","c" >> -> "audio/flac"
      [] OTHER -> ""

NoResponse == [id |-> << >>, status |-> 0, path |-> << >>, contentType |-> ""]

\* A direct call of registerAudioFile(audioPath).
RegisterAudioFile(audioPath) ==
    /\ audioFiles' = RegisterAudioFileTable(audioFiles, audioPath)
    /\ lastRegistered' = [path |-> audioPath, url |-> RegisterAudioFileUrl(audioPath)]
    /\ hIssued' = hIssued \cup {<<audioPath, RegisterAudioFileUrl(audioPath)>>}
    /\ UNCHANGED <<clients, queueSize, totalInBatch, currentPlaying,
                   totalDurationPlayed, audioCount, pendingDurations, lastBroadcast,
                   queueProgressEvent, historyVars, lastResponse, rateLimit, lastRate,
                   now, hWinStart, hWinRequests, hWinPassed, hSecondPass, hPrevSecond>>
    /\ UNCHANGED appVars

\* app.get('/audio/:id'), for a request the middleware passed on. fileSent is
\* whether res.sendFile finds and sends the file.
GetAudio(id, fileSent) ==
    /\ lastResponse' =
          IF id \notin DOMAIN audioFiles \/ audioFiles[id] = << >>
          THEN [id |-> id, status |-> 404, path |-> << >>, contentType |-> ""]
          ELSE LET normalizedPath == PathNormalize(audioFiles[id])
                   ext == Lower(ExtName(normalizedPath))
               IN  IF AudioContentType(ext) = ""
                   THEN [id |-> id, status |-> 403, path |-> audioFiles[id],
                         contentType |-> ""]
                   ELSE [id |-> id, status |-> IF fileSent THEN 200 ELSE 404,
                         path |-> audioFiles[id],
                         contentType |-> AudioContentType(ext)]
    /\ UNCHANGED <<overlayVars, historyVars, lastRegistered, rateLimit, lastRate,
                   now, httpHistoryVars>>
    /\ UNCHANGED appVars

NextToken ==
    /\ UNCHANGED << pageVars, settingsRead, testResult >>
    /\ \/ \E p \in TokenPaths : RegisterAudioFile(p)
       \/ \E id \in RequestTokens, sent \in BOOLEAN : GetAudio(id, sent)

-----------------------------------------------------------------------------
(* StorageService (storage.ts) *)

Gift99 == << "9", "9" >>
PathRelA == << "a", ".", "m", "p", "3" >>

NoMapping == [giftId |-> << >>, giftName |-> "", enabled |-> FALSE,
              audioPath |-> << >>, audioFiles |-> << >>]

\* The mappings the store is opened with in the gift specifications.
ScenarioMapping == [giftId |-> Gift99, giftName |-> "Rose", enabled |-> TRUE,
                    audioPath |-> << >>,
                    audioFiles |-> << [path |-> PathRelA, volume |-> 100] >>]
PlaylistMapping == [ScenarioMapping EXCEPT
                       !.audioFiles = << [path |-> PathA, volume |-> 50],
                                         [path |-> PathB, volume |-> 100] >>]
DisabledMapping == [ScenarioMapping EXCEPT !.enabled = FALSE]
LegacyMapping == [ScenarioMapping EXCEPT !.audioPath = PathA, !.audioFiles = << >>]
EmptiedMapping == [ScenarioMapping EXCEPT !.audioFiles = << >>]

\* defaultSettings
DefaultSettings ==
    [giftAudioMappings |-> << >>, globalVolume |-> 100, cachedGifts |-> << >>,
     audioFileVolumes |-> << >>, audioFileDurations |-> << >>]

SettingsWith(mapping) ==
    [DefaultSettings EXCEPT !.giftAudioMappings = (mapping.giftId :> mapping),
                            !.cachedGifts = (Gift99 :> "Rose")]

\* What the settings file holds when the application starts.
StoredSettings ==
    { DefaultSettings,
      [SettingsWith(ScenarioMapping) EXCEPT
          !.audioFileDurations = (<< "a" >> :> 14)],
      [SettingsWith(PlaylistMapping) EXCEPT
          !.globalVolume = 40, !.audioFileVolumes = (<< "a" >> :> 80)],
      SettingsWith(DisabledMapping),
      SettingsWith(LegacyMapping),
      SettingsWith(EmptiedMapping) }

\* ---- getSettings() and the legacy mapping formats (storage.ts:57-89)

\* A stored playlist entry that is a bare path (the format before per-file volumes).
StringEntry(path) == [string |-> path]

\* typeof entry === 'string'
IsString(entry) == "string" \in DOMAIN entry

\* mapping.volume || 1.0
VolumeOrDefault(m) == IF m.hasVolume /\ m.volume # 0 THEN m.volume ELSE 100

\* The body of the for loop of getSettings for one mapping (storage.ts:75-86).
NormalizeMapping(m) ==
    IF ~m.hasAudioFiles
    THEN [m EXCEPT !.hasAudioFiles = TRUE,
                   !.audioFiles =
                       IF m.audioPath # << >>
                       THEN << [path |-> m.audioPath, volume |-> VolumeOrDefault(m)] >>
                       ELSE << >>]
    ELSE IF Len(m.audioFiles) > 0 /\ IsString(m.audioFiles[1])
    THEN [m EXCEPT !.audioFiles =
             [i \in 1 .. Len(m.audioFiles) |->
                 [path |-> IF IsString(m.audioFiles[i]) THEN m.audioFiles[i].string
                           ELSE m.audioFiles[i],
                  volume |-> VolumeOrDefault(m)]]]
    ELSE m

\* The mappings a settings file written by any version of the application can hold:
\* a bare audioPath with or without a scalar volume, a playlist of bare paths, a
\* playlist of entries.
StoredPlaylists ==
    { << >>,
      << StringEntry(PathA) >>,
      << StringEntry(PathA), StringEntry(PathB) >>,
      << [path |-> PathA, volume |-> 0] >>,
      << [path |-> PathA, volume |-> 50], [path |-> PathB, volume |-> 100] >> }
StoredVolumes == { 0, 50, 100 }

StoredMappings ==
    { [giftId |-> Gift99, giftName |-> "Rose", enabled |-> TRUE,
       audioPath |-> path, hasAudioFiles |-> hasFiles,
       audioFiles |-> files, hasVolume |-> hasVolume, volume |-> volume] :
         path \in { << >>, PathA }, hasFiles \in BOOLEAN,
         files \in StoredPlaylists, hasVolume \in BOOLEAN,
         volume \in StoredVolumes }

\* The mappings of them that are well formed: no playlist without audioFiles, no
\* volume value without the volume field.
LegacyMappings ==
    { m \in StoredMappings :
         /\ ~m.hasAudioFiles => m.audioFiles = << >>
         /\ ~m.hasVolume => m.volume = 0 }

NoTest == [called |-> FALSE, giftName |-> "", result |-> FALSE]

NoRead == [read |-> FALSE, from |-> NoMapping, mapping |-> NoMapping]

\* ipcMain.handle('settings:get') -> getSettings() (main.ts:194-196,
\* storage.ts:57-89); the result is not written back.
GetSettings ==
    /\ ~quit
    /\ HasKey(store.giftAudioMappings, Gift99)
    /\ settingsRead' = [read |-> TRUE, from |-> store.giftAudioMappings[Gift99],
                        mapping |-> NormalizeMapping(store.giftAudioMappings[Gift99])]
    /\ UNCHANGED << overlayVars, historyVars, httpVars, now, httpHistoryVars, appVars,
                    pageVars, testResult >>

\* handleUpdateMapping of the renderer (App.tsx:305-314): the mapping it read, with
\* its enabled flag set, saved through audio:setMapping (storage.ts:131-135).
UpdateMapping(enabled) ==
    /\ ~quit
    /\ settingsRead.read
    /\ store' = [store EXCEPT !.giftAudioMappings =
                    SetKey(@, Gift99, [settingsRead.mapping EXCEPT !.enabled = enabled])]
    /\ UNCHANGED << overlayVars, historyVars, httpVars, now, httpHistoryVars,
                    tiktokVars, win, quit, platform, renderer, timers,
                    appHistoryVars, pageVars, settingsRead, testResult >>

\* A settings file with a playlist of two files whose durations were measured.
PlaylistSettings ==
    [SettingsWith(PlaylistMapping) EXCEPT
        !.globalVolume = 40, !.audioFileVolumes = (<< "a" >> :> 80),
        !.audioFileDurations = (<< "a" >> :> 14) @@ (<< "b" >> :> 12)]

\* getGiftAudio(giftId): mappings[giftId], undefined when there is none.
GetGiftAudio(giftId) ==
    IF HasKey(store.giftAudioMappings, giftId)
    THEN store.giftAudioMappings[giftId] ELSE NoMapping

\* getGiftName(giftId): the cached gift's name, '' for undefined.
GetGiftName(giftId) ==
    IF HasKey(store.cachedGifts, giftId) THEN store.cachedGifts[giftId] ELSE ""

\* getAudioVolume(id): volumes[id] ?? 1.0
GetAudioVolume_Silent(id) ==
    IF HasKey(store.audioFileVolumes, id) THEN store.audioFileVolumes[id] ELSE 0
GetAudioVolume(id) ==
    IF HasKey(store.audioFileVolumes, id) THEN store.audioFileVolumes[id] ELSE 100

\* getAudioDuration(audioId) || 0
GetAudioDuration(audioId) ==
    IF HasKey(store.audioFileDurations, audioId)
    THEN store.audioFileDurations[audioId] ELSE 0

\* setAudioVolume: Math.max(0, Math.min(1, volume))
ClampVolume_Off(volume) == volume
ClampVolume(volume) == Max(0, Min(100, volume))

\* settings:setGlobalVolume rejects volume < 0 || volume > 1.
GlobalVolumeAccepted(volume) == ~(volume < 0 \/ volume > 100)

-----------------------------------------------------------------------------
(* TikTokService: gift deduplication (tiktok.ts:44-84, 128-159) *)

DEDUP_WINDOW_MS == 5000

Digits == << "0", "1", "2", "3", "4", "5", "6", "7", "8", "9" >>

\* The decimal text of a non-negative integer, as a template literal prints it.
RECURSIVE NumberToString(_)
NumberToString(n) ==
    IF n < 10 THEN << Digits[n + 1] >>
    ELSE NumberToString(n \div 10) \o << Digits[(n % 10) + 1] >>

\* const key = `${userId}-${giftId}-${repeatCount}`
DedupKey_NoSeparator(userId, giftId, repeatCount) ==
    userId \o giftId \o NumberToString(repeatCount)
DedupKey(userId, giftId, repeatCount) ==
    userId \o << "-" >> \o giftId \o << "-" >> \o NumberToString(repeatCount)

\* now - lastSeen < this.DEDUP_WINDOW_MS
WithinDedupWindow_Inclusive(t, lastSeen) == t - lastSeen <= DEDUP_WINDOW_MS
WithinDedupWindow(t, lastSeen) == t - lastSeen < DEDUP_WINDOW_MS

\* isDuplicateGift's test: lastSeen && now - lastSeen < DEDUP_WINDOW_MS
\* (an absent entry and a timestamp of 0 are both falsy).
IsDuplicateGift(key) ==
    IF HasKey(recentGifts, key)
    THEN recentGifts[key] # 0 /\ WithinDedupWindow(now, recentGifts[key])
    ELSE FALSE

\* The Map after isDuplicateGift(key) returned: a variant that also refreshes the
\* entry of a duplicate.
RecentGiftsAfter_Refresh(key, duplicate) == SetKey(recentGifts, key, now)

\* The Map after isDuplicateGift(key) returned: this.recentGifts.set(key, now) is
\* reached only when the message is no duplicate (tiktok.ts:78-83).
RecentGiftsAfter(key, duplicate) ==
    IF duplicate THEN recentGifts ELSE SetKey(recentGifts, key, now)

\* data.repeatCount || 1
RepeatCountOf(raw) == IF raw = 0 THEN 1 ELSE raw

\* A mutation of the final test: every message counts as final.
IsFinalGift_All(repeatEnd) == TRUE

\* data.repeatEnd === undefined || data.repeatEnd === null || Boolean(data.repeatEnd)
IsFinalGift(repeatEnd) == repeatEnd \in { "undefined", "true" }

\* data.name || data.giftName || 'Gift'
FeedGiftName(name) == IF name = "" THEN "Gift" ELSE name

-----------------------------------------------------------------------------
(* main.ts: the window, safeSend, the giftFinal handler and its repeat timer *)

delayMs == 250

Platforms == { "darwin", "win32" }

\* safeSend(channel, payload): the renderer's inbox after the call.
SafeSend_Never(inbox, channel, payload) == inbox
SafeSend(inbox, channel, payload) ==
    IF win = "open" THEN [inbox EXCEPT ![channel] = payload] ELSE inbox

\* if (mapping && mapping.enabled)
MappingEnabled_IgnoresFlag(mapping) == mapping # NoMapping
MappingEnabled(mapping) == mapping # NoMapping /\ mapping.enabled

\* ---- AudioLibraryService.deleteFile and the playlists (main.ts:641-655,
\* ---- storage.ts:143-167)

LibraryDir == << "/", "m", "/" >>
FileB == << "b", ".", "M", "P", "3" >>

\* path.join(this.ensureLibraryDir(), filename)
LibraryPath(filename) == LibraryDir \o filename

NoDelete == [filename |-> << >>, result |-> FALSE]

\* A filter that compares only the entries that are objects.
KeptEntry_ObjectsOnly(file, audioPath) ==
    IF IsString(file) THEN TRUE ELSE file.path # audioPath

\* The filter callback: typeof file === 'string' ? file !== audioPath
\*                                              : file.path !== audioPath
KeptEntry(file, audioPath) ==
    IF IsString(file) THEN file.string # audioPath ELSE file.path # audioPath

\* mapping.audioFiles.filter(...)
RECURSIVE FilterEntries(_, _)
FilterEntries(files, audioPath) ==
    IF Len(files) = 0 THEN << >>
    ELSE (IF KeptEntry(Head(files), audioPath) THEN << Head(files) >> ELSE << >>)
            \o FilterEntries(Tail(files), audioPath)

\* removeAudioFromMappings(audioPath): the mappings written back (storage.ts:143-167).
RemoveAudioFromMappings(mappings, audioPath) ==
    [k \in DOMAIN mappings |->
        [mappings[k] EXCEPT !.audioFiles = FilterEntries(@, audioPath)]]

\* ipcMain.handle('audioLibrary:delete') -> deleteFile(filename) (main.ts:220-222,
\* 641-655). Whether the file exists and whether unlinkSync succeeds is the file
\* system's answer.
DeleteFile(filename, exists, unlinked) ==
    /\ ~quit
    /\ win = "open"
    /\ store' = IF exists /\ unlinked
                THEN [store EXCEPT !.giftAudioMappings =
                         RemoveAudioFromMappings(@, LibraryPath(filename))]
                ELSE store
    /\ renderer' = [renderer EXCEPT
                       !.deleted = [filename |-> filename,
                                    result |-> exists /\ unlinked]]
    /\ UNCHANGED << overlayVars, historyVars, httpVars, now, httpHistoryVars,
                    tiktokVars, win, quit, platform, timers, appHistoryVars,
                    pageVars, settingsRead, testResult >>

\* The playlists a mapping can hold when a file of the library is deleted.
DeletePlaylists ==
    { << >>,
      << [path |-> PathA, volume |-> 50] >>,
      << [path |-> PathA, volume |-> 50], [path |-> PathB, volume |-> 100] >>,
      << [path |-> PathB, volume |-> 100], [path |-> PathA, volume |-> 50],
         [path |-> PathB, volume |-> 0] >>,
      << StringEntry(PathB), StringEntry(PathA) >> }

OtherGift == << "5" >>

\* The settings files explored: two mappings, each with any of the playlists, the
\* second one enabled or not and with or without a legacy audioPath.
DeleteSettings ==
    { [DefaultSettings EXCEPT !.giftAudioMappings =
          (Gift99 :> [ScenarioMapping EXCEPT !.audioFiles = first])
             @@ (OtherGift :> [giftId |-> OtherGift, giftName |-> "Lion",
                               enabled |-> enabled, audioPath |-> audioPath,
                               audioFiles |-> second])] :
         first \in DeletePlaylists, second \in DeletePlaylists,
         enabled \in BOOLEAN, audioPath \in { << >>, PathA } }

\* const repeatCount = Math.min(event.giftCount, 20)
RepeatCount_Uncapped(giftCount) == giftCount
RepeatCount(giftCount) == Min(giftCount, 20)

\* audioPath.split(/[/\\]/).pop() || ''
FileName(audioPath) ==
    SubSeq(audioPath,
           Max(LastIndexOf(audioPath, "/"), LastIndexOf(audioPath, "\\")) + 1,
           Len(audioPath))

\* filename.replace(/\.[^/.]+$/, ""): the last dot and what follows it are dropped
\* when at least one character follows.
StripExtension(filename) ==
    LET dot == LastIndexOf(filename, ".")
    IN  IF dot = 0 \/ dot = Len(filename) THEN filename
        ELSE SubSeq(filename, 1, dot - 1)

AudioIdOf(audioPath) == StripExtension(FileName(audioPath))

\* const finalVolume = audioVolume * globalVolume
FinalVolume_GlobalOnly(audioVolume, globalVolume) == 100 * globalVolume
FinalVolume(audioVolume, globalVolume) == audioVolume * globalVolume

\* Math.floor(Math.random() * audioFiles.length), as 1-based indexes.
RandomIndexes(files) == IF Len(files) > 0 THEN 1 .. Len(files) ELSE { 0 }

\* A repeat that would draw from the entries after the first only.
RepeatIndexes_Rest(files) == IF Len(files) > 1 THEN 2 .. Len(files) ELSE { 0 }

\* The next draw of a repeat: Math.floor(Math.random() * mapping.audioFiles.length)
\* when the playlist has more than one entry (main.ts:147-150).
RepeatIndexes(files) == IF Len(files) > 1 THEN 1 .. Len(files) ELSE { 0 }

\* event.giftName === 'Gift' ? getGiftName(event.giftId) || event.giftName
\*                           : event.giftName
EnrichedGiftName(event) ==
    IF event.giftName = "Gift" /\ GetGiftName(event.giftId) # ""
    THEN GetGiftName(event.giftId) ELSE event.giftName

\* The tracker's counters and the number of playAudio calls made so far.
TrackerCounters == << queueSize, totalInBatch, currentPlaying, pendingDurations,
                      hEnqueued >>

\* No playAudio call is made.
NoPlay == UNCHANGED << overlayVars, historyVars, lastRegistered, hIssued >>

NoDispatch == [event |-> 0, index |-> 0, at |-> 0, path |-> << >>, volume |-> 0,
               total |-> 0, entry |-> 0, hasEntry |-> FALSE, library |-> 0,
               redrawn |-> FALSE, drawn |-> 0, duration |-> 0]

MappingState(mapping) ==
    IF mapping = NoMapping THEN "none"
    ELSE IF mapping.enabled THEN "enabled" ELSE "disabled"

\* tiktokService.on('giftFinal', ...) (main.ts:80-176)
GiftFinal(event) ==
    LET e == Len(hEvents) + 1
        giftName == EnrichedGiftName(event)
        sent == SafeSend(renderer, "gift", e)
        mapping == GetGiftAudio(event.giftId)
        files == IF MappingEnabled(mapping) THEN mapping.audioFiles ELSE << >>
    IN  \E randomIndex \in RandomIndexes(files) :
          LET audioPathToPlay ==
                  IF Len(files) > 0 THEN files[randomIndex].path
                  ELSE mapping.audioPath
              globalVolume == store.globalVolume
              audioId == AudioIdOf(audioPathToPlay)
              audioVolume == GetAudioVolume(audioId)
              audioDuration == GetAudioDuration(audioId)
              finalVolume == FinalVolume(audioVolume, globalVolume)
              repeatCount == RepeatCount(event.giftCount)
              plays == MappingEnabled(mapping) /\ audioPathToPlay # << >>
              \* win?.webContents.send('audio:played', ...) on a destroyed window
              \* throws "Object has been destroyed" and ends the handler.
              throws == plays /\ win = "destroyed"
              seen == [giftId |-> event.giftId, giftCount |-> event.giftCount,
                       at |-> now, win |-> win,
                       stored |-> GetGiftAudio(event.giftId),
                       mapping |-> MappingState(GetGiftAudio(event.giftId)),
                       hasPath |-> audioPathToPlay # << >>,
                       globalVolume |-> store.globalVolume,
                       library |->
                           IF HasKey(store.audioFileVolumes, audioId)
                           THEN store.audioFileVolumes[audioId] ELSE 100,
                       clients |-> Cardinality({ c \in DOMAIN clients :
                                                    clients[c] = "OPEN" }),
                       delivered |-> sent.gift = e,
                       before |-> TrackerCounters,
                       after |-> TrackerCounters',
                       dispatched |-> IF plays THEN 1 ELSE 0,
                       remapped |-> 0,
                       threw |-> throws]
          IN  /\ IF plays
                 THEN /\ OverlayPlayAudio(event.giftId, giftName, event.nickname,
                                          audioPathToPlay, finalVolume, audioDuration)
                      /\ renderer' = IF win = "open"
                                     THEN [sent EXCEPT !.played = e] ELSE sent
                      /\ timers' =
                            IF ~throws /\ repeatCount > 1
                            THEN SetKey(timers, e,
                                    [giftId |-> event.giftId, giftName |-> giftName,
                                     nickname |-> event.nickname,
                                     audioFiles |-> mapping.audioFiles,
                                     audioPathToPlay |-> audioPathToPlay,
                                     finalVolume |-> finalVolume,
                                     globalVolume |-> globalVolume,
                                     repeatCount |-> repeatCount,
                                     played |-> 1, due |-> now + delayMs])
                            ELSE timers
                      /\ hLastDispatch' =
                            [event |-> e, index |-> 1, at |-> now,
                             path |-> audioPathToPlay,
                             volume |-> lastBroadcast'.message.volume,
                             total |-> totalInBatch',
                             entry |-> IF Len(files) > 0
                                       THEN files[randomIndex].volume ELSE 0,
                             hasEntry |-> Len(files) > 0,
                             library |-> seen.library,
                             redrawn |-> TRUE,
                             drawn |-> randomIndex,
                             duration |-> audioDuration]
                 ELSE /\ NoPlay
                      /\ renderer' = sent
                      /\ UNCHANGED << timers, hLastDispatch >>
              /\ hEvents' = Append(hEvents, seen)

\* ---- ipcMain.handle('test:triggerGift') (main.ts:316-344)

\* String.prototype.toLowerCase on the gift names of the model.
ToLowerCase(name) ==
    CASE name \in { "Rose", "ROSE", "rose" } -> "rose"
      [] name \in { "Lion", "LION", "lion" } -> "lion"
      [] OTHER -> name

\* The number a giftId of digits is the canonical form of.
RECURSIVE DigitsValue(_)
DigitsValue(id) ==
    IF Len(id) = 0 THEN 0
    ELSE 10 * DigitsValue(SubSeq(id, 1, Len(id) - 1))
            + (CHOOSE d \in 0 .. 9 : Digits[d + 1] = id[Len(id)])

\* mapping.giftName.toLowerCase() === giftName.toLowerCase() && mapping.enabled
\*     && mapping.audioPath
TestMatches(mapping, giftName) ==
    /\ ToLowerCase(mapping.giftName) = ToLowerCase(giftName)
    /\ mapping.enabled
    /\ mapping.audioPath # << >>

\* for (const mapping of Object.values(mappings)): the first mapping that passes the
\* test; the keys are giftIds of digits, which Object.values visits in ascending
\* numeric order.
TestMatchIds(giftName) ==
    { k \in DOMAIN store.giftAudioMappings :
         TestMatches(store.giftAudioMappings[k], giftName) }

FirstTestMatch(giftName) ==
    CHOOSE k \in TestMatchIds(giftName) :
        \A x \in TestMatchIds(giftName) : DigitsValue(k) <= DigitsValue(x)

\* ipcMain.handle('test:triggerGift'): the mock giftFinal event is emitted on the
\* service, so its listener of main.ts runs inside the handler.
TriggerGift(giftName) ==
    /\ ~quit
    /\ Len(hEvents) < MaxEvents + 1
    /\ IF TestMatchIds(giftName) # {}
       THEN LET mapping == store.giftAudioMappings[FirstTestMatch(giftName)]
            IN  /\ GiftFinal([userId |-> << "t" >>, nickname |-> "Test User",
                              giftId |-> mapping.giftId,
                              giftName |-> mapping.giftName, giftCount |-> 3])
                /\ testResult' = [called |-> TRUE, giftName |-> giftName,
                                  result |-> TRUE]
       ELSE /\ NoPlay
            /\ testResult' = [called |-> TRUE, giftName |-> giftName,
                              result |-> FALSE]
            /\ UNCHANGED << renderer, timers, hEvents, hLastDispatch >>
    /\ UNCHANGED << tiktokVars, win, quit, platform, store, hVolumeOps, now,
                    rateSideVars, hGifts, hForwardAt, hPrevForward, hDecisions,
                    hNonFinal, pageVars, settingsRead >>

\* if (played >= repeatCount) { clearInterval(interval); return; }
RepeatsDone_Late(t) == t.played > t.repeatCount
RepeatsDone(t) == t.played >= t.repeatCount

\* played++ of the closure of event e, and the interval's next tick; a variant in
\* which the closures share one counter.
TimersAfterPlay_Shared(e) ==
    [x \in DOMAIN timers |->
        IF x = e THEN [timers[x] EXCEPT !.played = @ + 1, !.due = @ + delayMs]
        ELSE [timers[x] EXCEPT !.played = @ + 1]]

TimersAfterPlay(e) ==
    [timers EXCEPT ![e].played = @ + 1, ![e].due = @ + delayMs]

\* What a due interval callback of event e does to the pending intervals:
\* clearInterval(interval) once the plays are done, played++ otherwise.
TimerTick(e) ==
    /\ ~quit
    /\ HasKey(timers, e)
    /\ timers[e].due <= now
    /\ timers' = IF RepeatsDone(timers[e])
                 THEN [x \in DOMAIN timers \ {e} |-> timers[x]]
                 ELSE TimersAfterPlay(e)

\* The repeat timer of event e fires (the setInterval callback, main.ts:140-172).
TimerFire(e) ==
    /\ TimerTick(e)
    /\ LET t == timers[e]
       IN  IF RepeatsDone(t)
           THEN /\ NoPlay
                /\ UNCHANGED << hEvents, hLastDispatch >>
           ELSE \E nextRandomIndex \in RepeatIndexes(t.audioFiles) :
                  LET redraw == Len(t.audioFiles) > 1
                      nextAudioPath == IF redraw THEN t.audioFiles[nextRandomIndex].path
                                       ELSE t.audioPathToPlay
                      nextVolume ==
                          IF redraw
                          THEN FinalVolume(GetAudioVolume(AudioIdOf(nextAudioPath)),
                                           t.globalVolume)
                          ELSE t.finalVolume
                      nextDuration == GetAudioDuration(AudioIdOf(nextAudioPath))
                  IN  /\ OverlayPlayAudio(t.giftId, t.giftName, t.nickname,
                                          nextAudioPath, nextVolume, nextDuration)
                      /\ hEvents' = [hEvents EXCEPT ![e].dispatched = @ + 1]
                      /\ hLastDispatch' =
                            [event |-> e, index |-> t.played + 1, at |-> now,
                             path |-> nextAudioPath,
                             volume |-> lastBroadcast'.message.volume,
                             total |-> totalInBatch',
                             entry |-> IF redraw
                                       THEN t.audioFiles[nextRandomIndex].volume
                                       ELSE IF Len(t.audioFiles) = 1
                                            THEN t.audioFiles[1].volume ELSE 0,
                             hasEntry |-> Len(t.audioFiles) > 0,
                             library |->
                                 IF HasKey(store.audioFileVolumes,
                                           AudioIdOf(nextAudioPath))
                                 THEN store.audioFileVolumes[AudioIdOf(nextAudioPath)]
                                 ELSE 100,
                             redrawn |-> redraw,
                             drawn |-> nextRandomIndex,
                             duration |-> nextDuration]
    /\ UNCHANGED << tiktokVars, win, quit, platform, renderer, store,
                    hGifts, hForwardAt, hPrevForward, hDecisions, hNonFinal,
                    hVolumeOps,
                    now, rateSideVars >>

\* ---- the connection to the upstream feed (tiktok.ts:86-229)

UsernameInputs == { "alice" }

\* The state of a fresh TikTokService, and of one after disconnect() (tiktok.ts:41-43,
\* 223-226).
NoConnection == [connection |-> 0, status |-> "disconnected", currentUsername |-> ""]

StatusEvent(status) == [event |-> "status", arg |-> status]
DisconnectedEvent == [event |-> "disconnected", arg |-> ""]
ErrorEvent(message) == [event |-> "error", arg |-> message]

Emits(events, event) == \E i \in 1 .. Len(events) : events[i] = event

\* connection.disconnect() of the library object a: a socket that is open closes, a
\* connect() still awaited is given up.
CloseAttempt(all, a) ==
    IF a = 0 THEN all
    ELSE [all EXCEPT ![a] = IF @ = "pending" THEN "aborted"
                            ELSE IF @ = "open" THEN "closed" ELSE @]

\* What is left of the library objects once the upstream connection of a dropped and
\* its DISCONNECTED listener ran: a reconnecting service would have made a new one.
DroppedAttempts_Reconnect(all, a) == Append([all EXCEPT ![a] = "closed"], "pending")

DroppedAttempts(all, a) == [all EXCEPT ![a] = "closed"]

\* The dedup Map after disconnect() if the Map belonged to the connection.
RecentGiftsAfterDisconnect_Cleared(gifts) == << >>

\* The dedup Map after disconnect(): a field of the service that disconnect() and
\* connect() do not assign (tiktok.ts:44, 86-101, 216-229).
RecentGiftsAfterDisconnect(gifts) == gifts

\* TikTokService.connect(username) up to its await (tiktok.ts:86-196), called by
\* ipcMain.handle('tiktok:connect') (main.ts:235-240).
Connect(username) ==
    /\ ~quit
    /\ hFeed.calls < MaxConnects
    /\ attempts' = Append(CloseAttempt(attempts, tiktok.connection), "pending")
    /\ tiktok' = [connection |-> Len(attempts) + 1, status |-> "connecting",
                  currentUsername |-> username]
    /\ emitted' = (IF tiktok.connection # 0
                   THEN << StatusEvent("disconnected"), DisconnectedEvent >>
                   ELSE << >>) \o << StatusEvent("connecting") >>
    /\ hFeed' = [hFeed EXCEPT !.calls = @ + 1, !.last = "connect"]
    /\ recentGifts' = IF tiktok.connection # 0
                      THEN RecentGiftsAfterDisconnect(recentGifts) ELSE recentGifts
    /\ UNCHANGED << overlayVars, historyVars, httpVars, now, httpHistoryVars,
                    lastGift, mainVars, appHistoryVars, pageVars, settingsRead, testResult >>

\* connection.connect() of the object a resolves: the CONNECTED listener and the rest
\* of the try block run (tiktok.ts:103-113, 196-206).
ConnectResolves(a) ==
    /\ ~quit
    /\ attempts[a] = "pending"
    /\ attempts' = [attempts EXCEPT ![a] = "open"]
    /\ tiktok' = [tiktok EXCEPT !.status = "connected"]
    /\ emitted' = << StatusEvent("connected"), [event |-> "connected", arg |-> ""],
                     StatusEvent("connected") >>
    /\ hFeed' = [hFeed EXCEPT !.last = "connected"]
    /\ UNCHANGED << overlayVars, historyVars, httpVars, now, httpHistoryVars,
                    recentGifts, lastGift, mainVars, appHistoryVars, pageVars,
                    settingsRead, testResult >>

\* connection.connect() of the object a rejects: the catch block (tiktok.ts:207-213).
\* this.connection keeps the object.
ConnectRejects(a, hasMessage) ==
    /\ ~quit
    /\ attempts[a] \in { "pending", "aborted" }
    /\ attempts' = [attempts EXCEPT ![a] = "closed"]
    /\ tiktok' = [tiktok EXCEPT !.status = "error"]
    /\ emitted' = << StatusEvent("error"),
                     ErrorEvent(IF hasMessage THEN "error.message"
                                ELSE "Failed to connect") >>
    /\ hFeed' = [hFeed EXCEPT !.last = "fail", !.failed = @ + 1]
    /\ UNCHANGED << overlayVars, historyVars, httpVars, now, httpHistoryVars,
                    recentGifts, lastGift, mainVars, appHistoryVars, pageVars,
                    settingsRead, testResult >>

\* The upstream connection of the object a drops: the DISCONNECTED listener
\* (tiktok.ts:115-119). this.connection keeps the object.
UpstreamDrop(a) ==
    /\ ~quit
    /\ attempts[a] = "open"
    /\ attempts' = DroppedAttempts(attempts, a)
    /\ tiktok' = [tiktok EXCEPT !.status = "disconnected"]
    /\ emitted' = << StatusEvent("disconnected"), DisconnectedEvent >>
    /\ hFeed' = [hFeed EXCEPT !.last = "drop", !.dropped = @ + 1]
    /\ UNCHANGED << overlayVars, historyVars, httpVars, now, httpHistoryVars,
                    recentGifts, lastGift, mainVars, appHistoryVars, pageVars,
                    settingsRead, testResult >>

\* The library reports an error of the object a: the ERROR listener (tiktok.ts:121-125).
UpstreamError(a) ==
    /\ ~quit
    /\ attempts[a] \in { "pending", "open" }
    /\ emitted' = << ErrorEvent("Connection failed. Please check username and try again.") >>
    /\ hFeed' = [hFeed EXCEPT !.last = "error"]
    /\ UNCHANGED << overlayVars, historyVars, httpVars, now, httpHistoryVars,
                    recentGifts, lastGift, mainVars, appHistoryVars, pageVars,
                    settingsRead, testResult,
                    tiktok, attempts >>

\* TikTokService.disconnect() (tiktok.ts:216-229), called by
\* ipcMain.handle('tiktok:disconnect') (main.ts:242-245).
Disconnect ==
    /\ ~quit
    /\ tiktok.status # "disconnected" \/ tiktok.connection # 0
    /\ attempts' = CloseAttempt(attempts, tiktok.connection)
    /\ tiktok' = NoConnection
    /\ emitted' = << StatusEvent("disconnected"), DisconnectedEvent >>
    /\ hFeed' = [hFeed EXCEPT !.last = "disconnect"]
    /\ recentGifts' = RecentGiftsAfterDisconnect(recentGifts)
    /\ UNCHANGED << overlayVars, historyVars, httpVars, now, httpHistoryVars,
                    lastGift, mainVars, appHistoryVars, pageVars, settingsRead, testResult >>

NextFeed ==
    \/ \E username \in UsernameInputs : Connect(username)
    \/ \E a \in DOMAIN attempts : ConnectResolves(a)
    \/ \E a \in DOMAIN attempts, hasMessage \in BOOLEAN : ConnectRejects(a, hasMessage)
    \/ \E a \in DOMAIN attempts : UpstreamDrop(a)
    \/ \E a \in DOMAIN attempts : UpstreamError(a)
    \/ Disconnect

\* connection.on(WebcastEvent.GIFT, ...) for one message of the feed; the giftFinal
\* listeners run inside emit().
GiftMessage(userId, giftId, rawRepeatCount, repeatEnd, name) ==
    LET repeatCount == RepeatCountOf(rawRepeatCount)
        isFinalGift == IsFinalGift(repeatEnd)
        key == DedupKey(userId, giftId, repeatCount)
        forwarded == isFinalGift /\ ~IsDuplicateGift(key)
        triple == << userId, giftId, repeatCount >>
        giftEvent == [userId |-> userId, nickname |-> "Anonymous", giftId |-> giftId,
                      giftName |-> FeedGiftName(name), giftCount |-> repeatCount]
    IN  /\ ~quit
        /\ hGifts < MaxGifts
        /\ hGifts' = hGifts + 1
        /\ recentGifts' = IF isFinalGift
                          THEN RecentGiftsAfter(key, IsDuplicateGift(key))
                          ELSE recentGifts
        /\ lastGift' = [userId |-> userId, giftId |-> giftId,
                        repeatCount |-> repeatCount, repeatEnd |-> repeatEnd,
                        final |-> isFinalGift,
                        forwarded |-> forwarded, at |-> now,
                        known |-> HasKey(recentGifts, key)]
        /\ hPrevForward' = IF HasKey(hForwardAt, triple) THEN hForwardAt[triple] ELSE 0
        /\ hForwardAt' = IF forwarded THEN SetKey(hForwardAt, triple, now)
                         ELSE hForwardAt
        /\ hDecisions' =
              IF isFinalGift
              THEN SetKey(hDecisions, triple,
                          Append(IF HasKey(hDecisions, triple)
                                 THEN hDecisions[triple] ELSE << >>, forwarded))
              ELSE hDecisions
        /\ hNonFinal' = IF repeatEnd = "false" THEN hNonFinal \cup {triple}
                        ELSE hNonFinal
        /\ IF forwarded
           THEN GiftFinal(giftEvent)
           ELSE /\ NoPlay
                /\ UNCHANGED << renderer, timers, hEvents, hLastDispatch >>
        /\ UNCHANGED << win, quit, platform, store, hVolumeOps, now, rateSideVars >>

\* A message of the feed, whatever connection it arrives on.
TikTokGift(userId, giftId, rawRepeatCount, repeatEnd, name) ==
    /\ GiftMessage(userId, giftId, rawRepeatCount, repeatEnd, name)
    /\ UNCHANGED feedVars

\* A message of the feed arriving on the open connection a, whose GIFT listener
\* was installed by the connect() call that made it (tiktok.ts:100, 127-157).
FeedGift(a, userId, giftId, rawRepeatCount, repeatEnd) ==
    /\ attempts[a] = "open"
    /\ GiftMessage(userId, giftId, rawRepeatCount, repeatEnd, "")
    /\ hFeed' = [hFeed EXCEPT !.forwardVia = IF lastGift'.forwarded THEN a ELSE @]
    /\ UNCHANGED << tiktok, attempts, emitted >>

\* A sweep that evicts entries still inside the dedup window.
SweepEvicts_Early(t, timestamp) == t - timestamp > 1000

\* if (now - timestamp > this.DEDUP_WINDOW_MS + 1000) this.recentGifts.delete(k)
SweepEvicts(t, timestamp) == t - timestamp > DEDUP_WINDOW_MS + 1000

\* The cleanup interval of the constructor (tiktok.ts:51-58).
DedupSweep ==
    /\ ~quit
    /\ \E k \in DOMAIN recentGifts : SweepEvicts(now, recentGifts[k])
    /\ recentGifts' = [k \in { x \in DOMAIN recentGifts :
                                 ~SweepEvicts(now, recentGifts[x]) }
                          |-> recentGifts[k]]
    /\ UNCHANGED << overlayVars, historyVars, httpVars, now, httpHistoryVars,
                    lastGift, feedVars, mainVars, appHistoryVars >>

\* Time passes between two messages of the feed.
DedupClockAdvance(step) ==
    /\ now <= ClockStart + DEDUP_WINDOW_MS + 1000   \* until an entry can be swept
    /\ now' = now + step
    /\ UNCHANGED << overlayVars, historyVars, httpVars, httpHistoryVars, appVars >>

\* delayMs pass while a repeat timer is pending; a due timer fires first.
TimerClockAdvance ==
    /\ ~quit
    /\ DOMAIN timers # {}
    /\ \A e \in DOMAIN timers : timers[e].due > now
    /\ now' = now + delayMs
    /\ UNCHANGED << overlayVars, historyVars, httpVars, httpHistoryVars, appVars >>

\* The user closes the main window: app.on('window-all-closed') (main.ts:348-355).
WindowAllClosed ==
    /\ win = "open"
    /\ IF platform # "darwin"
       THEN \* tiktokService.disconnect(); overlayServer.stop(); app.quit()
            /\ win' = "null"
            /\ quit' = TRUE
            /\ clients' = << >>
            /\ attempts' = CloseAttempt(attempts, tiktok.connection)
            /\ tiktok' = NoConnection
            /\ emitted' = << StatusEvent("disconnected"), DisconnectedEvent >>
            /\ hFeed' = [hFeed EXCEPT !.last = "disconnect"]
       ELSE /\ win' = "destroyed"
            /\ UNCHANGED << quit, clients, feedVars >>
    /\ UNCHANGED << audioFiles, queueSize, totalInBatch, currentPlaying,
                    totalDurationPlayed, audioCount, pendingDurations,
                    lastBroadcast, queueProgressEvent, historyVars, httpVars, now,
                    httpHistoryVars, recentGifts, lastGift, platform, renderer,
                    timers, store, appHistoryVars >>

\* app.on('activate'): createWindow() when no window is left (main.ts:357-361).
Activate ==
    /\ ~quit
    /\ win = "destroyed"
    /\ win' = "open"
    /\ renderer' = [gift |-> 0, played |-> 0, deleted |-> NoDelete]
    /\ UNCHANGED << overlayVars, historyVars, httpVars, now, httpHistoryVars,
                    tiktokVars, quit, platform, timers, store, appHistoryVars >>

\* ipcMain.handle('settings:setGlobalVolume') (main.ts:200-204)
SetGlobalVolume(volume) ==
    /\ ~quit
    /\ win = "open"
    /\ hVolumeOps < MaxVolumeOps
    /\ hVolumeOps' = hVolumeOps + 1
    /\ store' = IF GlobalVolumeAccepted(volume)
                THEN [store EXCEPT !.globalVolume = volume] ELSE store
    /\ UNCHANGED << overlayVars, historyVars, httpVars, now, httpHistoryVars,
                    tiktokVars, win, quit, platform, renderer, timers,
                    hGifts, hForwardAt, hPrevForward, hDecisions, hNonFinal, hEvents,
                    hLastDispatch >>

\* ipcMain.handle('audioLibrary:setVolume') (main.ts:228-232)
SetAudioVolume(id, volume) ==
    /\ ~quit
    /\ win = "open"
    /\ hVolumeOps < MaxVolumeOps
    /\ hVolumeOps' = hVolumeOps + 1
    /\ store' = [store EXCEPT !.audioFileVolumes = SetKey(@, id, ClampVolume(volume))]
    /\ UNCHANGED << overlayVars, historyVars, httpVars, now, httpHistoryVars,
                    tiktokVars, win, quit, platform, renderer, timers,
                    hGifts, hForwardAt, hPrevForward, hDecisions, hNonFinal, hEvents,
                    hLastDispatch >>

\* The events whose repeat timer is pending get the number of dispatches made
\* so far noted when the gift's mapping is changed (observation only).
NoteRemap(giftId) ==
    hEvents' = [e \in DOMAIN hEvents |->
                   IF HasKey(timers, e) /\ hEvents[e].giftId = giftId
                      /\ hEvents[e].remapped = 0
                   THEN [hEvents[e] EXCEPT !.remapped = hEvents[e].dispatched]
                   ELSE hEvents[e]]

\* ipcMain.handle('audio:setMapping') (main.ts:280-283): storageService.setGiftAudio
SetGiftAudio(mapping) ==
    /\ ~quit
    /\ win = "open"
    /\ hVolumeOps < MaxVolumeOps
    /\ hVolumeOps' = hVolumeOps + 1
    /\ store' = [store EXCEPT !.giftAudioMappings = SetKey(@, mapping.giftId, mapping)]
    /\ NoteRemap(mapping.giftId)
    /\ UNCHANGED << overlayVars, historyVars, httpVars, now, httpHistoryVars,
                    tiktokVars, win, quit, platform, renderer, timers,
                    hGifts, hForwardAt, hPrevForward, hDecisions, hNonFinal,
                    hLastDispatch >>

\* ipcMain.handle('audio:removeMapping') (main.ts:285-288): removeGiftAudio
RemoveGiftAudio(giftId) ==
    /\ ~quit
    /\ win = "open"
    /\ hVolumeOps < MaxVolumeOps
    /\ hVolumeOps' = hVolumeOps + 1
    /\ store' = [store EXCEPT !.giftAudioMappings =
                    [k \in DOMAIN @ \ {giftId} |-> @[k]]]
    /\ NoteRemap(giftId)
    /\ UNCHANGED << overlayVars, historyVars, httpVars, now, httpHistoryVars,
                    tiktokVars, win, quit, platform, renderer, timers,
                    hGifts, hForwardAt, hPrevForward, hDecisions, hNonFinal,
                    hLastDispatch >>

\* The messages of the feed explored by the deduplication specification.
FeedGifts == { << << "7" >>, << "1", "9" >> >>, << << "7", "1" >>, << "9" >> >> }
FeedRepeatCounts == { 0, 1, 2 }
RepeatEnds == { "undefined", "true", "false" }
DedupSteps == { 2499, 2501 }

NextDedup ==
    /\ UNCHANGED << pageVars, settingsRead, testResult >>
    /\ \/ \E gift \in FeedGifts, raw \in FeedRepeatCounts, repeatEnd \in RepeatEnds :
             TikTokGift(gift[1], gift[2], raw, repeatEnd, "")
       \/ DedupSweep
       \/ \E step \in DedupSteps : DedupClockAdvance(step)

\* The messages of the feed explored across connections: one gift of one user, as
\* the terminal or a non-terminal message of its streak.
ReconnectGift == << << "7" >>, << "1", "9" >> >>
ReconnectRepeatEnds == { "true", "false" }

\* The upstream connection is made, dropped and made again while the feed delivers
\* and redelivers a gift.
NextReconnect ==
    \/ \E username \in UsernameInputs : Connect(username)
    \/ \E a \in DOMAIN attempts : ConnectResolves(a)
    \/ \E a \in DOMAIN attempts : UpstreamDrop(a)
    \/ Disconnect
    \/ /\ UNCHANGED << pageVars, settingsRead, testResult >>
       /\ \/ \E a \in DOMAIN attempts, repeatEnd \in ReconnectRepeatEnds :
                FeedGift(a, ReconnectGift[1], ReconnectGift[2], 1, repeatEnd)
          \/ \E step \in DedupSteps : DedupClockAdvance(step)

\* The gifts explored by the gift specifications.
GiftCounts == { 1, 37 }
ScenarioCounts == { 1, 3 }
GlobalVolumeInputs == { 40, 150 }
AudioVolumeInputs == { 50, 150 }
RemapCounts == { 3, 21 }
PlaylistCounts == { 2, 3 }
OverlapCounts == { 2, 21 }
OverlapUsers == { << "7" >> }

\* One terminal GIFT message of the overlap specification: one event more than
\* MaxEvents, so that two schedules can run at once.
OverlapGift(userId, giftCount) ==
    /\ Len(hEvents) < MaxEvents + 1
    /\ TikTokGift(userId, Gift99, giftCount, "true", "Rose")

\* One terminal GIFT message of the playlist specification.
PlaylistGift(giftCount) ==
    /\ Len(hEvents) < MaxEvents
    /\ TikTokGift(<< "7" >>, Gift99, giftCount, "true", "Rose")

NextGift ==
    /\ UNCHANGED << pageVars, settingsRead, testResult >>
    /\ \/ \E giftCount \in GiftCounts :
             /\ Len(hEvents) < MaxEvents
             /\ TikTokGift(<< "7" >>, Gift99, giftCount, "true", "Rose")
       \/ \E e \in DOMAIN timers : TimerFire(e)
       \/ TimerClockAdvance
       \/ WindowAllClosed
       \/ Activate

NextScenario ==
    /\ UNCHANGED << pageVars, settingsRead, testResult >>
    /\ \/ \E giftCount \in ScenarioCounts :
             /\ Len(hEvents) < MaxEvents
             /\ TikTokGift(<< "7" >>, Gift99, giftCount, "true", "Rose")
       \/ \E e \in DOMAIN timers : TimerFire(e)
       \/ TimerClockAdvance
       \/ WindowAllClosed
       \/ Activate
       \/ \E c \in { "c1" } : ClientConnect(c)
       \/ \E c \in { "c1" } : AudioEnded(c, 12)
       \/ \E volume \in GlobalVolumeInputs : SetGlobalVolume(volume)
       \/ \E volume \in AudioVolumeInputs : SetAudioVolume(<< "a" >>, volume)

\* Gifts whose mapping is disabled or deleted while their repeat timer runs.
NextRemap ==
    /\ UNCHANGED << pageVars, settingsRead, testResult >>
    /\ \/ \E giftCount \in RemapCounts :
             /\ Len(hEvents) < MaxEvents
             /\ TikTokGift(<< "7" >>, Gift99, giftCount, "true", "Rose")
       \/ \E e \in DOMAIN timers : TimerFire(e)
       \/ TimerClockAdvance
       \/ SetGiftAudio(DisabledMapping)
       \/ RemoveGiftAudio(Gift99)

\* Gifts of several viewers whose repeat schedules overlap.
NextOverlap ==
    /\ UNCHANGED << pageVars, settingsRead, testResult >>
    /\ \/ \E userId \in OverlapUsers, giftCount \in OverlapCounts :
             OverlapGift(userId, giftCount)
       \/ \E e \in DOMAIN timers : TimerFire(e)
       \/ TimerClockAdvance

\* Gifts for a playlist of several files.
NextPlaylist ==
    /\ UNCHANGED << pageVars, settingsRead, testResult >>
    /\ \/ \E giftCount \in PlaylistCounts : PlaylistGift(giftCount)
       \/ \E e \in DOMAIN timers : TimerFire(e)
       \/ TimerClockAdvance
       \/ \E volume \in AudioVolumeInputs : SetAudioVolume(<< "a" >>, volume)

NextVolume ==
    /\ UNCHANGED << pageVars, settingsRead, testResult >>
    /\ \/ \E giftCount \in ScenarioCounts :
             /\ Len(hEvents) < MaxEvents
             /\ TikTokGift(<< "7" >>, Gift99, giftCount, "true", "Rose")
       \/ \E e \in DOMAIN timers : TimerFire(e)
       \/ TimerClockAdvance
       \/ \E volume \in GlobalVolumeInputs : SetGlobalVolume(volume)
       \/ \E volume \in AudioVolumeInputs : SetAudioVolume(<< "a" >>, volume)

-----------------------------------------------------------------------------
(* The rate-limit middleware (overlay.ts:63-86) *)

WINDOW_MS == 10000
MAX_REQUESTS == 100

Addresses == { "127.0.0.1", "127.0.0.2" }
RateSteps == { 6 * 1000 }          \* the clock jumps between requests

\* const ip = req.ip || req.socket.remoteAddress || 'unknown'
RateKey_Shared(ip) == "unknown"
RateKey(ip) == ip

\* now > record.resetTime
WindowExpired_Never(t, resetTime) == FALSE
WindowExpired(t, resetTime) == t > resetTime

\* record.count > MAX_REQUESTS, tested after the increment
OverLimit_Early(count) == count >= MAX_REQUESTS
OverLimit(count) == count > MAX_REQUESTS

\* The middleware, for one request from address ip.
RateLimitRequest(ip) ==
    LET key == RateKey(ip)
        fresh == IF HasKey(rateLimit, key)
                 THEN WindowExpired(now, rateLimit[key].resetTime) ELSE TRUE
        count == IF fresh THEN 1 ELSE rateLimit[key].count + 1
        status == IF ~fresh /\ OverLimit(count) THEN "429" ELSE "next"
        \* the observer's own window of this address
        opens == IF HasKey(hWinStart, ip)
                 THEN now - hWinStart[ip] > WINDOW_MS ELSE TRUE
        passed == (IF opens THEN 0 ELSE hWinPassed[ip])
                     + (IF status = "next" THEN 1 ELSE 0)
    IN  /\ IF fresh THEN TRUE ELSE rateLimit[key].count < MAX_REQUESTS + MaxExcess
        /\ rateLimit' = SetKey(rateLimit, key,
              IF fresh THEN [count |-> 1, resetTime |-> now + WINDOW_MS]
                       ELSE [rateLimit[key] EXCEPT !.count = count])
        /\ lastRate' = SetKey(lastRate, ip, status)
        /\ hWinStart' = SetKey(hWinStart, ip, IF opens THEN now ELSE hWinStart[ip])
        /\ hWinRequests' = SetKey(hWinRequests, ip,
                                  IF opens THEN 1 ELSE hWinRequests[ip] + 1)
        /\ hWinPassed' = SetKey(hWinPassed, ip, passed)
        \* times of second passes, 0 while there is none (the clock is positive)
        /\ hSecondPass' = SetKey(hSecondPass, ip,
              IF opens THEN 0
              ELSE IF status = "next" /\ passed = 2 THEN now ELSE hSecondPass[ip])
        /\ hPrevSecond' = SetKey(hPrevSecond, ip,
              IF ~HasKey(hWinStart, ip) THEN 0
              ELSE IF opens
                   THEN (IF hWinPassed[ip] = MAX_REQUESTS THEN hSecondPass[ip] ELSE 0)
                   ELSE hPrevSecond[ip])
        /\ UNCHANGED <<overlayVars, historyVars, lastRegistered, lastResponse,
                       now, hIssued>>
    /\ UNCHANGED appVars

\* Time passes between two requests.
RateClockAdvance(step) ==
    /\ now <= ClockStart + WINDOW_MS      \* until the first window has expired
    /\ now' = now + step
    /\ UNCHANGED <<overlayVars, historyVars, httpVars, httpHistoryVars>>
    /\ UNCHANGED appVars

NextRate ==
    /\ UNCHANGED << pageVars, settingsRead, testResult >>
    /\ \/ \E ip \in Addresses : RateLimitRequest(ip)
       \/ \E step \in RateSteps : RateClockAdvance(step)

-----------------------------------------------------------------------------
(* The overlay page (the script of OVERLAY_HTML, overlay.ts:401-611) and the *)
(* WebSocket between the page and the server                                *)

\* The page of a browser source that has not been loaded yet.
NoPage == [loaded |-> FALSE, audioQueue |-> << >>, isPlaying |-> FALSE,
           currentAudio |-> 0, audioUnlocked |-> FALSE, audioCtx |-> "none",
           autoResume |-> FALSE, clickResume |-> FALSE, timeouts |-> 0,
           elements |-> << >>]

NoPageHistory == [aborted |-> {}, leaked |-> {}]

\* The AudioContext a page load can meet: already running, suspended by the
\* autoplay policy, or not constructible.
ContextStates == { "running", "suspended", "unavailable" }

\* What an ended element reports as audio.duration.
PageDurations == { 12 }

\* An Audio element: in playback (play() was called and nothing stopped it),
\* whether its play() promise has resolved, and the error/rejection callbacks
\* queued for it.
NewElement == [playing |-> TRUE, started |-> FALSE, pending |-> 0]

\* Elements with nothing left to happen are dropped.
Live(elements) ==
    [n \in { x \in DOMAIN elements :
                elements[x].playing \/ elements[x].pending > 0 } |-> elements[n]]

\* audio.pause() keeps a playing element silent.
Pause_Ignored(elements, n) == elements

\* audio.pause(): playback stops and no 'ended' follows; a play() promise that is
\* still pending is rejected (AbortError), which queues its catch callback.
Pause(elements, n) ==
    IF HasKey(elements, n) /\ elements[n].playing
    THEN Live([elements EXCEPT ![n] =
                 [playing |-> FALSE, started |-> FALSE,
                  pending |-> IF elements[n].started THEN elements[n].pending
                              ELSE elements[n].pending + 1]])
    ELSE elements

InPlayback(p) == { n \in DOMAIN p.elements : p.elements[n].playing }

\* playAudio(url, volume, onEnded) of the page (overlay.ts:557-608)
playAudio(p, item) ==
    [p EXCEPT !.elements = SetKey(IF p.currentAudio # 0
                                  THEN Pause(p.elements, p.currentAudio)
                                  ELSE p.elements,
                                  item.n, NewElement),
              !.currentAudio = item.n]

\* The guard of processQueue.
QueueBlocked_IgnoresLock(p) == p.isPlaying \/ Len(p.audioQueue) = 0

\* if (!audioUnlocked || isPlaying || audioQueue.length === 0) return;
QueueBlocked(p) == ~p.audioUnlocked \/ p.isPlaying \/ Len(p.audioQueue) = 0

\* A queue that hands out its newest entry.
Shift_Newest(queue) ==
    [item |-> queue[Len(queue)], rest |-> SubSeq(queue, 1, Len(queue) - 1)]

\* const item = audioQueue.shift(): the oldest entry and what is left.
Shift(queue) == [item |-> Head(queue), rest |-> Tail(queue)]

\* processQueue() (overlay.ts:542-555)
processQueue(p) ==
    IF QueueBlocked(p) THEN p
    ELSE playAudio([p EXCEPT !.isPlaying = TRUE,
                             !.audioQueue = Shift(p.audioQueue).rest],
                   Shift(p.audioQueue).item)

\* The onEnded callback handed to playAudio by processQueue.
onEnded(p) == [p EXCEPT !.isPlaying = FALSE, !.timeouts = @ + 1]

\* tryAutoUnlock() (overlay.ts:418-439), up to its resume() promise.
tryAutoUnlock(p, state) ==
    IF state = "running"
    THEN [p EXCEPT !.audioCtx = "running", !.audioUnlocked = TRUE]
    ELSE IF state = "suspended"
    THEN [p EXCEPT !.audioCtx = "suspended", !.autoResume = TRUE]
    ELSE p

PageStep(c, q) ==
    /\ page' = [page EXCEPT ![c] = q]
    /\ hPage' = hPage

\* if (ws && ws.readyState === WebSocket.OPEN) ws.send({type:'audio-ended', ...})
SendEnded(c, duration, n) ==
    IF HasKey(clients, c)
    THEN uplink' = [uplink EXCEPT ![c] = Append(@, [duration |-> duration, n |-> n])]
    ELSE uplink' = uplink

serverVars == <<overlayVars, historyVars, httpVars, now, httpHistoryVars, appVars,
               settingsRead, testResult>>

\* The browser source loads the page: tryAutoUnlock() and connect() run.
PageLoad(c, state) ==
    /\ ~page[c].loaded
    /\ PageStep(c, tryAutoUnlock([NoPage EXCEPT !.loaded = TRUE], state))
    /\ UNCHANGED <<wire, uplink, hBatch, hBroadcasts, hJoined, serverVars>>

\* The resume() promise of tryAutoUnlock resolves with the context running.
AutoResumeResolves(c) ==
    /\ page[c].autoResume
    /\ PageStep(c, [page[c] EXCEPT !.autoResume = FALSE, !.audioCtx = "running",
                                   !.audioUnlocked = TRUE])
    /\ UNCHANGED <<wire, uplink, hBatch, hBroadcasts, hJoined, serverVars>>

\* unlockAudio() (overlay.ts:442-474), the click and touch listener, up to its
\* resume() promise; without an AudioContext the catch branch unlocks at once.
unlockAudio(c) ==
    /\ page[c].loaded
    /\ ~page[c].audioUnlocked
    /\ ~page[c].clickResume
    /\ IF page[c].audioCtx = "none"
       THEN PageStep(c, processQueue([page[c] EXCEPT !.audioUnlocked = TRUE]))
       ELSE PageStep(c, [page[c] EXCEPT !.clickResume = TRUE])
    /\ UNCHANGED <<wire, uplink, hBatch, hBroadcasts, hJoined, serverVars>>

\* The resume() promise of unlockAudio resolves.
ClickResumeResolves(c) ==
    /\ page[c].clickResume
    /\ PageStep(c, processQueue([page[c] EXCEPT !.clickResume = FALSE,
                                                !.audioCtx = "running",
                                                !.audioUnlocked = TRUE]))
    /\ UNCHANGED <<wire, uplink, hBatch, hBroadcasts, hJoined, serverVars>>

\* handleMessage(msg) (overlay.ts:516-540) on the next message of the socket.
handleMessage(c) ==
    /\ page[c].loaded
    /\ Len(wire[c]) > 0
    /\ LET m == Head(wire[c])
           p == page[c]
       IN  /\ wire' = [wire EXCEPT ![c] = Tail(@)]
           /\ IF m.type = "play-audio"
              THEN PageStep(c, processQueue(
                              [p EXCEPT !.audioQueue =
                                  Append(@, [url |-> m.audioUrl,
                                             volume |-> m.volume, n |-> m.n])]))
              ELSE IF m.type = "clear-queue"
              THEN /\ page' = [page EXCEPT ![c] =
                          [p EXCEPT !.audioQueue = << >>,
                                    !.elements = IF p.currentAudio # 0
                                                 THEN Pause(@, p.currentAudio)
                                                 ELSE @,
                                    !.currentAudio = 0,
                                    !.isPlaying = FALSE]]
                   /\ hPage' = [hPage EXCEPT
                          ![c].aborted = @ \cup (InPlayback(p) \cap {p.currentAudio})]
              ELSE UNCHANGED <<page, hPage>>
    /\ UNCHANGED <<uplink, hBatch, hBroadcasts, hJoined, serverVars>>

\* The play() promise of element n resolves: playback has begun.
PlayStarts(c, n) ==
    /\ HasKey(page[c].elements, n)
    /\ page[c].elements[n].playing
    /\ ~page[c].elements[n].started
    /\ PageStep(c, [page[c] EXCEPT !.elements[n].started = TRUE])
    /\ UNCHANGED <<wire, uplink, hBatch, hBroadcasts, hJoined, serverVars>>

\* audio.onended of element n.
MediaEnded(c, n, duration) ==
    /\ HasKey(page[c].elements, n)
    /\ page[c].elements[n].playing
    /\ page[c].elements[n].started
    /\ SendEnded(c, duration, n)
    /\ page' = [page EXCEPT ![c] =
           onEnded([page[c] EXCEPT !.elements =
                       Live([@ EXCEPT ![n].playing = FALSE])])]
    /\ hPage' = hPage
    /\ UNCHANGED <<wire, hBatch, hBroadcasts, hJoined, serverVars>>

\* The media of element n cannot be loaded: the browser fires 'error' on the
\* element and rejects its play() promise; `callbacks` of the two handlers run.
LoadFails(c, n, callbacks) ==
    /\ HasKey(page[c].elements, n)
    /\ page[c].elements[n].playing
    /\ ~page[c].elements[n].started
    /\ PageStep(c, [page[c] EXCEPT !.elements[n] =
                       [playing |-> FALSE, started |-> FALSE,
                        pending |-> @.pending + callbacks]])
    /\ UNCHANGED <<wire, uplink, hBatch, hBroadcasts, hJoined, serverVars>>

\* audio.onerror or the catch of audio.play() runs for element n.
FailureCallback(c, n) ==
    /\ HasKey(page[c].elements, n)
    /\ page[c].elements[n].pending > 0
    /\ SendEnded(c, 0 - 1, n)
    /\ page' = [page EXCEPT ![c] =
           onEnded([page[c] EXCEPT !.elements =
                       Live([@ EXCEPT ![n].pending = @ - 1])])]
    /\ hPage' = [hPage EXCEPT ![c].leaked =
                    IF HasKey(clients, c) THEN @ \cup ({n} \cap hPage[c].aborted) ELSE @]
    /\ UNCHANGED <<wire, hBatch, hBroadcasts, hJoined, serverVars>>

\* setTimeout(processQueue, 100) comes due.
TimeoutFires(c) ==
    /\ page[c].timeouts > 0
    /\ PageStep(c, processQueue([page[c] EXCEPT !.timeouts = @ - 1]))
    /\ UNCHANGED <<wire, uplink, hBatch, hBroadcasts, hJoined, serverVars>>

\* What a broadcast puts on the sockets: the message, numbered, to its receivers.
Deliver ==
    /\ hBroadcasts' = hBroadcasts + 1
    /\ wire' = [c \in ClientIds |->
                   IF c \in lastBroadcast'.to
                   THEN Append(wire[c],
                               [type |-> lastBroadcast'.message.type,
                                audioUrl |-> IF lastBroadcast'.message.type = "play-audio"
                                             THEN lastBroadcast'.message.audioUrl
                                             ELSE << >>,
                                volume |-> IF lastBroadcast'.message.type = "play-audio"
                                           THEN lastBroadcast'.message.volume ELSE 0,
                                n |-> IF lastBroadcast'.message.type = "play-audio"
                                      THEN hEnqueued' ELSE 0,
                                seq |-> hBroadcasts + 1])
                   ELSE wire[c]]

\* What the server sends to a client that has just connected.
Greeting_Replay(last) ==
    IF last.message.type = "none" THEN << [type |-> "connected", seq |-> 0] >>
    ELSE << [type |-> "connected", seq |-> 0],
            [type |-> last.message.type, audioUrl |-> << >>, volume |-> 0,
             n |-> 0, seq |-> hBroadcasts] >>

\* ws.send(JSON.stringify({ type: 'connected' })) (overlay.ts:166)
Greeting(last) == << [type |-> "connected", seq |-> 0] >>

\* connect() of the page reaches the server: wss.on('connection').
PageConnect(c) ==
    /\ page[c].loaded
    /\ ClientConnect(c)
    /\ wire' = [wire EXCEPT ![c] = Greeting(lastBroadcast)]
    /\ uplink' = [uplink EXCEPT ![c] = << >>]
    /\ hJoined' = [hJoined EXCEPT ![c] = hBroadcasts]
    /\ UNCHANGED <<page, hPage, hBatch, hBroadcasts, settingsRead, testResult>>

\* The socket closes (ws.on('close') on the server, ws.onclose on the page): what
\* was in flight is lost; the page keeps its queue and reconnects later.
PageDisconnect(c) ==
    /\ ClientClose(c)
    /\ wire' = [wire EXCEPT ![c] = << >>]
    /\ uplink' = [uplink EXCEPT ![c] = << >>]
    /\ UNCHANGED <<page, hPage, hBatch, hBroadcasts, hJoined, settingsRead, testResult>>

\* overlayServer.playAudio(...) with its broadcast reaching the sockets.
Dispatch(audioPath, duration) ==
    /\ PlayAudio(audioPath, duration)
    /\ Deliver
    /\ hBatch' = IF queueSize = 0
                 THEN [items |-> {hEnqueued'}, reported |-> {}, ended |-> 0,
                       cleared |-> FALSE, unheard |-> lastBroadcast'.to = {},
                       clearedAt |-> hBatch.clearedAt]
                 ELSE [hBatch EXCEPT !.items = @ \cup {hEnqueued'},
                                     !.unheard = @ \/ lastBroadcast'.to = {}]
    /\ UNCHANGED <<page, hPage, uplink, hJoined, settingsRead, testResult>>

\* overlayServer.clearQueue() with its broadcast reaching the sockets.
ClearAll ==
    /\ hBroadcasts < MaxPlays
    /\ ClearQueue
    /\ Deliver
    /\ hBatch' = [hBatch EXCEPT !.cleared = TRUE, !.clearedAt = hEnqueued]
    /\ UNCHANGED <<page, hPage, uplink, hJoined, settingsRead, testResult>>

\* The server's ws.on('message') takes the next audio-ended of client c.
ReceiveEnded(c) ==
    /\ Len(uplink[c]) > 0
    /\ AudioEnded(c, Head(uplink[c]).duration)
    /\ uplink' = [uplink EXCEPT ![c] = Tail(@)]
    /\ hBatch' = [hBatch EXCEPT !.ended = @ + 1,
                                !.reported = @ \cup {Head(uplink[c]).n}]
    /\ UNCHANGED <<page, hPage, wire, hBroadcasts, hJoined, settingsRead, testResult>>

PagePaths == { PathA }
PageQueueDurations == { 14 }

\* One overlay page, its media and the server's commands.
NextPage ==
    \/ \E state \in { "running", "suspended" } : PageLoad("c1", state)
    \/ AutoResumeResolves("c1")
    \/ PageConnect("c1")
    \/ handleMessage("c1")
    \/ \E n \in DOMAIN page["c1"].elements : PlayStarts("c1", n)
    \/ \E n \in DOMAIN page["c1"].elements, d \in PageDurations : MediaEnded("c1", n, d)
    \/ \E n \in DOMAIN page["c1"].elements, k \in { 1, 2 } : LoadFails("c1", n, k)
    \/ \E n \in DOMAIN page["c1"].elements : FailureCallback("c1", n)
    \/ TimeoutFires("c1")
    \/ \E p \in PagePaths, d \in PageQueueDurations : Dispatch(p, d)
    \/ ClearAll

\* One overlay page, the ways its audio gets unlocked, and the server's dispatches.
NextUnlock ==
    \/ \E state \in ContextStates : PageLoad("c1", state)
    \/ AutoResumeResolves("c1")
    \/ unlockAudio("c1")
    \/ ClickResumeResolves("c1")
    \/ PageConnect("c1")
    \/ handleMessage("c1")
    \/ \E n \in DOMAIN page["c1"].elements : PlayStarts("c1", n)
    \/ \E n \in DOMAIN page["c1"].elements, d \in PageDurations : MediaEnded("c1", n, d)
    \/ TimeoutFires("c1")
    \/ \E p \in PagePaths, d \in PageQueueDurations : Dispatch(p, d)

\* One overlay page whose socket opens and closes, and the server.
NextSocket ==
    \/ PageLoad("c1", "running")
    \/ PageConnect("c1")
    \/ PageDisconnect("c1")
    \/ handleMessage("c1")
    \/ \E n \in DOMAIN page["c1"].elements : PlayStarts("c1", n)
    \/ \E n \in DOMAIN page["c1"].elements, d \in PageDurations : MediaEnded("c1", n, d)
    \/ TimeoutFires("c1")
    \/ \E p \in PagePaths, d \in PageQueueDurations : Dispatch(p, d)
    \/ ClearAll
    \/ ReceiveEnded("c1")

\* Two overlay pages whose audio is unlocked at load and whose media plays.
NextClients ==
    \/ \E c \in ClientIds : PageLoad(c, "running")
    \/ \E c \in ClientIds : PageConnect(c)
    \/ \E c \in ClientIds : handleMessage(c)
    \/ \E c \in ClientIds : \E n \in DOMAIN page[c].elements : PlayStarts(c, n)
    \/ \E c \in ClientIds : \E n \in DOMAIN page[c].elements, d \in PageDurations :
          MediaEnded(c, n, d)
    \/ \E c \in ClientIds : TimeoutFires(c)
    \/ \E p \in PagePaths, d \in PageQueueDurations : Dispatch(p, d)
    \/ \E c \in ClientIds : ReceiveEnded(c)

InitPage ==
    /\ page = [c \in ClientIds |-> NoPage]
    /\ hPage = [c \in ClientIds |-> NoPageHistory]
    /\ wire = [c \in ClientIds |-> << >>]
    /\ uplink = [c \in ClientIds |-> << >>]
    /\ hBatch = [items |-> {}, reported |-> {}, ended |-> 0, cleared |-> FALSE,
                 unheard |-> FALSE, clearedAt |-> 0]
    /\ hBroadcasts = 0
    /\ hJoined = [c \in ClientIds |-> 0]

InitOverlay ==
    /\ clients = << >>
    /\ audioFiles = << >>
    /\ queueSize = 0
    /\ totalInBatch = 0
    /\ currentPlaying = 0
    /\ totalDurationPlayed = 0
    /\ audioCount = 0
    /\ pendingDurations = << >>
    /\ lastBroadcast = [message |-> NoMessage, to |-> {}]
    /\ queueProgressEvent = [current |-> 0, total |-> 0, remaining |-> 0]

InitHistory ==
    /\ hEnqueued = 0
    /\ hOutstanding = 0
    /\ hMatched = TRUE
    /\ hCleared = FALSE

InitHttp ==
    /\ lastRegistered = [path |-> << >>, url |-> << >>]
    /\ lastResponse = NoResponse
    /\ rateLimit = << >>
    /\ lastRate = << >>
    /\ now = ClockStart
    /\ hIssued = {}
    /\ hWinStart = << >>
    /\ hWinRequests = << >>
    /\ hWinPassed = << >>
    /\ hSecondPass = << >>
    /\ hPrevSecond = << >>

InitTikTok ==
    /\ recentGifts = << >>
    /\ lastGift = [userId |-> << >>, giftId |-> << >>, repeatCount |-> 0,
                   repeatEnd |-> "undefined",
                   final |-> FALSE, forwarded |-> FALSE, at |-> 0, known |-> FALSE]
    /\ hGifts = 0
    /\ hForwardAt = << >>
    /\ hPrevForward = 0
    /\ hDecisions = << >>
    /\ hNonFinal = {}
    /\ tiktok = NoConnection
    /\ attempts = << >>
    /\ emitted = << >>
    /\ hFeed = [calls |-> 0, failed |-> 0, dropped |-> 0, last |-> "none",
                forwardVia |-> 0]

InitMain ==
    /\ win = "open"
    /\ quit = FALSE
    /\ renderer = [gift |-> 0, played |-> 0, deleted |-> NoDelete]
    /\ timers = << >>
    /\ hEvents = << >>
    /\ hLastDispatch = NoDispatch
    /\ hVolumeOps = 0
    /\ settingsRead = NoRead
    /\ testResult = NoTest

\* A first start: the settings are the defaults.
Init ==
    /\ InitOverlay /\ InitHistory /\ InitHttp /\ InitTikTok /\ InitMain /\ InitPage
    /\ platform = "win32"
    /\ store = DefaultSettings

\* A start on either platform with settings saved by an earlier run.
InitInstalled ==
    /\ InitOverlay /\ InitHistory /\ InitHttp /\ InitTikTok /\ InitMain /\ InitPage
    /\ platform \in Platforms
    /\ store \in StoredSettings

\* A start with a playlist of two files saved for the gift.
InitPlaylist ==
    /\ InitOverlay /\ InitHistory /\ InitHttp /\ InitTikTok /\ InitMain /\ InitPage
    /\ platform = "win32"
    /\ store = PlaylistSettings

\* A start with an enabled mapping of one audio file saved for the gift.
InitRemap ==
    /\ InitOverlay /\ InitHistory /\ InitHttp /\ InitTikTok /\ InitMain /\ InitPage
    /\ platform = "win32"
    /\ store \in { s \in StoredSettings :
                      /\ HasKey(s.giftAudioMappings, Gift99)
                      /\ s.giftAudioMappings[Gift99].enabled
                      /\ Len(s.giftAudioMappings[Gift99].audioFiles) = 1 }

NextNormalize ==
    \/ GetSettings
    \/ \E enabled \in BOOLEAN : UpdateMapping(enabled)

\* A start with one mapping in the settings file, in any of the stored formats.
InitNormalize ==
    /\ InitOverlay /\ InitHistory /\ InitHttp /\ InitTikTok /\ InitMain /\ InitPage
    /\ platform = "win32"
    /\ store \in { [DefaultSettings EXCEPT !.giftAudioMappings = (Gift99 :> m)] :
                      m \in LegacyMappings }

SpecNormalize == InitNormalize /\ [][NextNormalize]_vars

NextDelete ==
    \E filename \in { PathRelA, FileB }, exists \in BOOLEAN, unlinked \in BOOLEAN :
        DeleteFile(filename, exists, unlinked)

\* A start with two mappings and their playlists in the settings file.
InitDelete ==
    /\ InitOverlay /\ InitHistory /\ InitHttp /\ InitTikTok /\ InitMain /\ InitPage
    /\ platform = "win32"
    /\ store \in DeleteSettings

SpecDelete == InitDelete /\ [][NextDelete]_vars

\* The names the Simulate Gift Event button can be pressed with.
TestNames == { "Rose", "ROSE", "Lion" }

\* The mappings the settings file can hold for the gift when the test is used: a
\* playlist saved through the audio dialog, a legacy audioPath, both, none, disabled.
TestMappings ==
    { ScenarioMapping, PlaylistMapping, LegacyMapping, EmptiedMapping, DisabledMapping,
      [LegacyMapping EXCEPT !.audioFiles = << [path |-> PathB, volume |-> 100] >>],
      [LegacyMapping EXCEPT !.enabled = FALSE] }

NextTest ==
    \/ \E giftName \in TestNames : TriggerGift(giftName)
    \/ /\ UNCHANGED << pageVars, settingsRead, testResult >>
       /\ \/ \E e \in DOMAIN timers : TimerFire(e)
          \/ TimerClockAdvance

\* A start with one or two mappings in the settings file.
InitTest ==
    /\ InitOverlay /\ InitHistory /\ InitHttp /\ InitTikTok /\ InitMain /\ InitPage
    /\ platform = "win32"
    /\ store \in { SettingsWith(m) : m \in TestMappings }
                  \cup { [SettingsWith(m) EXCEPT
                             !.giftAudioMappings =
                                 @ @@ (OtherGift :> [LegacyMapping EXCEPT
                                                        !.giftId = OtherGift,
                                                        !.giftName = "Lion"])] :
                             m \in { ScenarioMapping, LegacyMapping } }

SpecTest == InitTest /\ [][NextTest]_vars

\* Gifts and their repeats while files of the library are deleted.
NextDeletePlay ==
    \/ \E filename \in { PathRelA, FileB }, exists \in BOOLEAN :
          DeleteFile(filename, exists, TRUE)
    \/ /\ UNCHANGED << pageVars, settingsRead, testResult >>
       /\ \/ \E giftCount \in PlaylistCounts : PlaylistGift(giftCount)
          \/ \E e \in DOMAIN timers : TimerFire(e)
          \/ TimerClockAdvance

\* A start with a playlist of two library files, or a legacy audioPath naming a
\* library file, saved for the gift.
InitDeletePlay ==
    /\ InitOverlay /\ InitHistory /\ InitHttp /\ InitTikTok /\ InitMain /\ InitPage
    /\ platform = "win32"
    /\ store \in { PlaylistSettings, SettingsWith(LegacyMapping) }

SpecDeletePlay == InitDeletePlay /\ [][NextDeletePlay]_vars

NextQueue ==
    /\ UNCHANGED << pageVars, settingsRead, testResult >>
    /\ \/ \E c \in ClientIds : ClientConnect(c)
       \/ \E c \in ClientIds : ClientClosing(c)
       \/ \E c \in ClientIds : ClientClose(c)
       \/ \E p \in QueuePaths, d \in QueueDurations : PlayAudio(p, d)
       \/ \E c \in ClientIds, d \in EndedDurations : AudioEnded(c, d)
       \/ ClearQueue

SpecQueue == Init /\ [][NextQueue]_vars

SpecToken == Init /\ [][NextToken]_vars

SpecRate == Init /\ [][NextRate]_vars

SpecDedup == Init /\ [][NextDedup]_vars

SpecReconnect == Init /\ [][NextReconnect]_vars

SpecGift == InitInstalled /\ [][NextGift]_vars

SpecScenario == InitInstalled /\ [][NextScenario]_vars

SpecVolume == InitInstalled /\ [][NextVolume]_vars

SpecRemap == InitRemap /\ [][NextRemap]_vars

SpecPage == Init /\ [][NextPage]_vars

SpecSocket == Init /\ [][NextSocket]_vars

SpecUnlock == Init /\ [][NextUnlock]_vars

SpecClients == Init /\ [][NextClients]_vars

SpecFeed == Init /\ [][NextFeed]_vars

SpecOverlap == InitRemap /\ [][NextOverlap]_vars

\* The same with the event loop's scheduling: a due interval callback runs, and time
\* passes while an interval is pending.
SpecOverlapLive ==
    /\ SpecOverlap
    /\ WF_vars(TimerClockAdvance /\ UNCHANGED << pageVars, settingsRead, testResult >>)
    /\ \A e \in 1 .. MaxEvents + 1 : WF_timers(TimerTick(e))

SpecPlaylist == InitPlaylist /\ [][NextPlaylist]_vars

-----------------------------------------------------------------------------
(* Claims about the queue tracker, checked under SpecQueue *)

ProgressReset == [current |-> 0, total |-> 0, remaining |-> 0, estimatedSeconds |-> 0]

\* C1: while a batch is active (queueSize > 0), currentPlaying + queueSize equals
\* totalInBatch, after any interleaving of playAudio, audio-ended and clearQueue.
C1_BatchAccounting ==
    queueSize > 0 => currentPlaying + queueSize = totalInBatch

\* A batch started after a clearQueue() in which one item has ended and one is left.
C1_Witness ==
    /\ hCleared
    /\ queueSize >= 1
    /\ currentPlaying >= 1

\* C2: when every playAudio has been matched by exactly one audio-ended and
\* clearQueue was never called, getQueueProgress() is {0, 0, 0, 0} once nothing is
\* outstanding.
C2_AccountingClosure ==
    (hMatched /\ ~hCleared /\ hOutstanding = 0) => GetQueueProgress = ProgressReset

\* Two or more items were enqueued, with durations, and all of them have ended.
C2_Witness ==
    /\ hMatched /\ ~hCleared /\ hOutstanding = 0
    /\ hEnqueued >= 2
    /\ queueProgressEvent.current >= 2

\* C3: whenever queueSize is 0, totalInBatch and currentPlaying are 0 and the
\* pending-duration FIFO is empty, also when clearQueue() caused the transition.
C3_ResetWithQueueSize ==
    queueSize = 0 =>
        /\ totalInBatch = 0
        /\ currentPlaying = 0
        /\ pendingDurations = << >>

-----------------------------------------------------------------------------
(* Claims about the token table, checked under SpecToken *)

IssuedUrls == { pair \in hIssued : pair[2] # << >> }

\* C9: the token of every URL registerAudioFile returned resolves in the token
\* table to the path it was returned for; the same path always gets the same URL;
\* GET /audio/:id answers 404 for a token that was never registered, and whatever
\* path it resolves is the path registered under that token.
C9_TokenRoundTrip ==
    /\ \A pair \in hIssued : (pair[2] # << >>) = HasAudioExtension(pair[1])
    /\ \A pair \in IssuedUrls :
          /\ RouteParam(pair[2]) \in DOMAIN audioFiles
          /\ audioFiles[RouteParam(pair[2])] = pair[1]
    /\ \A a, b \in hIssued : a[1] = b[1] => a[2] = b[2]
    /\ (lastResponse # NoResponse
          /\ lastResponse.id \notin { RouteParam(pair[2]) : pair \in IssuedUrls })
       => lastResponse.status = 404
    /\ lastResponse.path # << >>
       => <<lastResponse.path, AudioRoute \o lastResponse.id>> \in hIssued

\* Several paths are registered, two of which differ only after the last full
\* three-byte group, and one of them has just been served by its token.
C9_Witness ==
    /\ {PathA, PathM4a, PathSlash} \subseteq { pair[1] : pair \in IssuedUrls }
    /\ lastResponse.status = 200
    /\ lastResponse.id = TokenOf(PathA)
    /\ lastResponse.path = PathA

-----------------------------------------------------------------------------
(* Claims about the rate limiter, checked under SpecRate *)

\* C10 (as amended): per source address and fixed window (opened by the address's
\* first request, or its first request more than WINDOW_MS after the window
\* opened), exactly the first MAX_REQUESTS requests are passed on and every
\* further one is answered 429, whatever other addresses do.
C10_FixedWindowLimit ==
    /\ \A ip \in DOMAIN hWinStart :
          hWinPassed[ip] = Min(hWinRequests[ip], MAX_REQUESTS)
    /\ \A ip \in DOMAIN lastRate :
          (lastRate[ip] = "429") = (hWinRequests[ip] > MAX_REQUESTS)

\* One address has exhausted its allowance in its second window and was answered
\* 429, while the last request of the other address, in a window opened later, was
\* passed on.
C10_Witness ==
    \E a, b \in DOMAIN hWinStart :
        /\ a # b
        /\ hWinRequests[a] > MAX_REQUESTS
        /\ hWinStart[a] > ClockStart
        /\ lastRate[a] = "429"
        /\ hWinStart[b] > hWinStart[a]
        /\ hWinPassed[b] > 1
        /\ lastRate[b] = "next"

\* C10 (as claimed): no rolling 10-second interval holds more than MAX_REQUESTS
\* passed requests of one address. Passes 2..MAX_REQUESTS of a full window and the
\* first two of the next are MAX_REQUESTS + 1 passes, so the second pass of the
\* next window must come at least WINDOW_MS after the second pass of the full one.
C10_RollingLimit ==
    \A ip \in DOMAIN hPrevSecond :
        (hPrevSecond[ip] > 0 /\ hSecondPass[ip] > 0)
            => hSecondPass[ip] - hPrevSecond[ip] >= WINDOW_MS

-----------------------------------------------------------------------------
(* Claims about the gift deduplication, checked under SpecDedup *)

\* C5: a terminal gift message is forwarded exactly when its
\* (userId, giftId, repeatCount) was never forwarded before or was last forwarded
\* at least DEDUP_WINDOW_MS earlier: the first is forwarded, one arriving less than
\* 5000 ms after it is dropped, one arriving after the window is forwarded again.
C5_DedupIdempotence ==
    (hGifts > 0 /\ lastGift.final) =>
        lastGift.forwarded =
            (hPrevForward = 0 \/ lastGift.at - hPrevForward >= 5000)

\* A triple was forwarded, dropped inside the window and forwarded again exactly
\* 5000 ms after the first time.
C5_Witness ==
    \E triple \in DOMAIN hDecisions :
        /\ hDecisions[triple] = << TRUE, FALSE, TRUE >>
        /\ lastGift.forwarded
        /\ << lastGift.userId, lastGift.giftId, lastGift.repeatCount >> = triple
        /\ lastGift.at - hPrevForward = 5000

-----------------------------------------------------------------------------
(* Claims about the giftFinal handler, checked under SpecGift *)

\* C4 (as claimed): a gift whose mapping is enabled and resolves to an audio path
\* never gets more than min(N, 20) playAudio calls, and gets exactly that many
\* once the handler has returned and no repeat timer is left for it.
C4_RepeatCap ==
    \A e \in 1 .. Len(hEvents) :
        (hEvents[e].mapping = "enabled" /\ hEvents[e].hasPath) =>
            /\ hEvents[e].dispatched <= Min(hEvents[e].giftCount, 20)
            /\ (~quit /\ ~HasKey(timers, e)) =>
                   hEvents[e].dispatched = Min(hEvents[e].giftCount, 20)

\* C6 (as amended): a gift without a mapping, or whose mapping is disabled, causes
\* no playAudio call, at once or later, and leaves the tracker's counters as they
\* were; the renderer receives the gift exactly when the main window is open.
C6_UnmappedGiftPlaysNothing ==
    \A e \in 1 .. Len(hEvents) :
        hEvents[e].mapping \in { "none", "disabled" } =>
            /\ hEvents[e].dispatched = 0
            /\ ~HasKey(timers, e)
            /\ hEvents[e].after = hEvents[e].before
            /\ hEvents[e].delivered = (hEvents[e].win = "open")

\* A gift of 37 with a disabled mapping was handled while the window was open.
C6_Witness ==
    \E e \in 1 .. Len(hEvents) :
        /\ hEvents[e].mapping = "disabled"
        /\ hEvents[e].giftCount = 37
        /\ hEvents[e].delivered
        /\ hEvents[e].dispatched = 0
        /\ renderer.gift = e

\* C6 (as claimed): such a gift is always sent to the renderer.
C6_GiftAlwaysReachesRenderer ==
    \A e \in 1 .. Len(hEvents) :
        hEvents[e].mapping \in { "none", "disabled" } =>
            /\ hEvents[e].dispatched = 0
            /\ ~HasKey(timers, e)
            /\ hEvents[e].after = hEvents[e].before
            /\ hEvents[e].delivered

-----------------------------------------------------------------------------
(* Claims about one gift end to end, checked under SpecScenario *)

\* C7 (as claimed): with the mapping of gift 99 enabled on the single file a.mp3 at
\* volume 1.0, globalVolume 1.0 and one connected client, a gift of 3 is played
\* 3 times, at 0, 250 and 500 ms after the event, each at volume 1.0 and with
\* totalInBatch equal to the number of the play; the remaining count follows the
\* audio-ended messages and the tracker ends reset.
C7_ThreeGiftScenario ==
    \A e \in 1 .. Len(hEvents) :
        ( /\ hEvents[e].stored = ScenarioMapping
          /\ hEvents[e].globalVolume = 100
          /\ hEvents[e].clients = 1
          /\ hEvents[e].giftCount = 3 ) =>
            /\ hEvents[e].dispatched <= 3
            /\ (~quit /\ ~HasKey(timers, e)) => hEvents[e].dispatched = 3
            /\ hLastDispatch.event = e =>
                  /\ hLastDispatch.at = hEvents[e].at + 250 * (hLastDispatch.index - 1)
                  /\ hLastDispatch.volume = 100 * 100
                  /\ hLastDispatch.total = hLastDispatch.index
            /\ hMatched => queueSize = hOutstanding
            /\ (~HasKey(timers, e) /\ hMatched /\ hOutstanding = 0) =>
                  GetQueueProgress = ProgressReset

-----------------------------------------------------------------------------
(* Claims about the volume of a play, checked under SpecVolume *)

\* C8 (as amended): the volume of every play-audio command is the library volume
\* stored for the file (1.0 when none is stored) times the globalVolume read when
\* the gift was handled; the library volume is the one read when the gift was
\* handled, or at the repeat when the playlist has several entries; stored volumes
\* and the product stay within [0, 1].
C8_LibraryTimesGlobal ==
    /\ store.globalVolume >= 0 /\ store.globalVolume <= 100
    /\ \A id \in DOMAIN store.audioFileVolumes :
          store.audioFileVolumes[id] >= 0 /\ store.audioFileVolumes[id] <= 100
    /\ hLastDispatch.event > 0 =>
          /\ hLastDispatch.volume =
                (IF hLastDispatch.redrawn THEN hLastDispatch.library
                 ELSE hEvents[hLastDispatch.event].library)
                    * hEvents[hLastDispatch.event].globalVolume
          /\ hLastDispatch.volume >= 0
          /\ hLastDispatch.volume <= 100 * 100

\* A repeat drew the entry a.mp3 (entry volume 0.5, library volume 0.8) under
\* globalVolume 0.4 and was played at 0.32.
C8_Witness ==
    /\ hLastDispatch.index > 1
    /\ hLastDispatch.redrawn
    /\ hLastDispatch.path = PathA
    /\ hLastDispatch.entry = 50
    /\ hLastDispatch.library = 80
    /\ hLastDispatch.volume = 80 * 40
    /\ lastBroadcast.message.volume = 80 * 40

\* C8 (as claimed): the volume is the selected entry's own volume times
\* globalVolume, each clamped to [0, 1].
C8_EntryTimesGlobal ==
    (hLastDispatch.event > 0 /\ hLastDispatch.hasEntry) =>
        /\ hLastDispatch.volume =
              Max(0, Min(100, hLastDispatch.entry))
                 * Max(0, Min(100, hEvents[hLastDispatch.event].globalVolume))
        /\ hLastDispatch.volume >= 0
        /\ hLastDispatch.volume <= 100 * 100

-----------------------------------------------------------------------------
(* Claims about the overlay page, checked under SpecPage *)

\* The step is handleMessage(c) taking a play-audio message.
ReceivesPlayAudio(c) ==
    /\ Len(wire[c]) > 0
    /\ Head(wire[c]).type = "play-audio"
    /\ wire'[c] = Tail(wire[c])
    /\ clients' = clients
    /\ page'[c] # page[c]

-----------------------------------------------------------------------------
(* Claims about the server and one overlay page, checked under SpecSocket *)

\* C12: while no audio-ended message has arrived for the current batch and
\* clearQueue() has not been called, every dispatch of the batch is counted
\* (queueSize and totalInBatch equal the number of its dispatches, whether or not a
\* client was connected to hear them) and remaining stays above zero; queueSize
\* decreases only in a step that handles an audio-ended message or is clearQueue().
C12_UnreportedBatchStays ==
    /\ [](hBatch.items # {} /\ hBatch.ended = 0 /\ ~hBatch.cleared =>
             /\ queueSize = Cardinality(hBatch.items)
             /\ totalInBatch = Cardinality(hBatch.items)
             /\ GetQueueProgress.remaining = queueSize
             /\ GetQueueProgress.remaining > 0)
    /\ [][queueSize' < queueSize =>
             \/ hBatch'.ended = hBatch.ended + 1
             \/ lastBroadcast'.message.type = "clear-queue" /\ hBroadcasts' # hBroadcasts]_vars

\* A batch of two dispatches, one of them made with no client connected, whose
\* page received an item and then lost its socket: nothing was reported.
C12_Witness ==
    /\ Cardinality(hBatch.items) = 2
    /\ hBatch.unheard
    /\ hBatch.ended = 0
    /\ ~hBatch.cleared
    /\ ~HasKey(clients, "c1")
    /\ page["c1"].currentAudio # 0
    /\ queueSize = 2

\* C13: a client never receives a command that was broadcast before it connected:
\* the connection step puts only {type:"connected"} on its socket, and every other
\* message on the socket was broadcast after the client joined, whatever the queue
\* held at that moment.
C13_NoReplayOnJoin ==
    /\ [](\A c \in ClientIds : \A i \in 1 .. Len(wire[c]) :
             IF wire[c][i].type = "connected" THEN i = 1
             ELSE wire[c][i].seq > hJoined[c])
    /\ [][\A c \in ClientIds :
             ~HasKey(clients, c) /\ HasKey(clients', c) =>
                 wire'[c] = << [type |-> "connected", seq |-> 0] >>]_vars

\* A client that joined after two dispatches were broadcast, with the queue still
\* holding them, and then was sent the next dispatch behind its greeting.
C13_Witness ==
    /\ HasKey(clients, "c1")
    /\ hJoined["c1"] = 2
    /\ queueSize = 3
    /\ Len(wire["c1"]) = 2
    /\ wire["c1"][1].type = "connected"
    /\ wire["c1"][2].type = "play-audio"
    /\ wire["c1"][2].n = 3

-----------------------------------------------------------------------------
(* Claims about the server and two overlay pages, checked under SpecClients *)

\* C14: the server resets a batch (queueSize reaches 0 through audio-ended
\* messages) only when every item dispatched in that batch has been reported ended
\* by some client, with one or several overlay pages connected and each reporting
\* its own completions.
C14_ResetAfterLastItem ==
    hBatch.items # {} /\ ~hBatch.cleared /\ queueSize = 0 =>
        hBatch.items \subseteq hBatch.reported

-----------------------------------------------------------------------------
(* Claims about the audio-ended handler and clearQueue, checked under SpecQueue *)

QueueFields(r) == << r.queueSize, r.currentPlaying, r.totalInBatch,
                     r.pendingDurations, r.queueProgressEvent >>

\* C15: in every reachable state of the tracker, an audio-ended message without a
\* duration leaves queueSize, currentPlaying, totalInBatch and the pending-duration
\* FIFO exactly as an audio-ended with any duration would; it differs only in the
\* played-duration bookkeeping, to which it adds nothing (totalDurationPlayed and
\* audioCount keep their values, or are reset with the batch).
C15_EndedWithoutDuration ==
    /\ \A d \in EndedDurations :
          QueueFields(AfterEnded(d)) = QueueFields(AfterEnded(NoDuration))
    /\ AfterEnded(NoDuration).totalDurationPlayed \in { totalDurationPlayed, 0 }
    /\ AfterEnded(NoDuration).audioCount \in { audioCount, 0 }
    /\ AfterEnded(NoDuration).queueSize > 0 =>
          /\ AfterEnded(NoDuration).totalDurationPlayed = totalDurationPlayed
          /\ AfterEnded(NoDuration).audioCount = audioCount

\* Three dispatches of which one ended with a duration and nothing else ended: an
\* audio-ended with a duration would now count, one without would not.
C15_Witness ==
    /\ hEnqueued = 3
    /\ queueSize = 2
    /\ currentPlaying = 1
    /\ audioCount = 1
    /\ Len(pendingDurations) = 2
    /\ AfterEnded(12).audioCount = 2
    /\ AfterEnded(NoDuration).audioCount = 1

-----------------------------------------------------------------------------
(* Claims about the overlay page's clear-queue and unlock paths *)

\* The step is handleMessage(c) taking a clear-queue message.
ReceivesClearQueue(c) ==
    /\ Len(wire[c]) > 0
    /\ Head(wire[c]).type = "clear-queue"
    /\ wire'[c] = Tail(wire[c])
    /\ clients' = clients

\* C16: when an overlay page receives clear-queue its local queue becomes empty,
\* the playback in progress is halted and the page is idle, and no audio-ended
\* message is ever sent for the item whose playback was aborted.
C16_ClearQueueSilent ==
    /\ [][\A c \in ClientIds :
             ReceivesClearQueue(c) =>
                 /\ page'[c].audioQueue = << >>
                 /\ InPlayback(page'[c]) = {}
                 /\ ~page'[c].isPlaying]_vars
    /\ [](\A c \in ClientIds : hPage[c].leaked = {})

IsPrefix(s, t) == Len(s) <= Len(t) /\ \A i \in 1 .. Len(s) : s[i] = t[i]

\* C17: on an overlay page no item is in playback while audio is locked, the items
\* received while locked stay in audioQueue in their order of arrival, and in the
\* step that unlocks the audio (the automatic resume of the AudioContext or the
\* user's click) a non-empty queue starts draining: its head begins to play without
\* a further play-audio message.
C17_UnlockDrainsQueue ==
    /\ [](\A c \in ClientIds :
             ~page[c].audioUnlocked => page[c].elements = << >> /\ ~page[c].isPlaying)
    /\ [][\A c \in ClientIds :
             /\ ~page[c].audioUnlocked /\ ~page'[c].audioUnlocked =>
                   IsPrefix(page[c].audioQueue, page'[c].audioQueue)
             /\ ~page[c].audioUnlocked /\ page'[c].audioUnlocked
                   /\ Len(page[c].audioQueue) > 0 =>
                   /\ page'[c].isPlaying
                   /\ page'[c].currentAudio = Head(page[c].audioQueue).n]_vars

\* C18: a clearQueue() step hands a clear-queue command to exactly the clients
\* whose connection is open and sets queueSize to 0 in that same step, with no
\* acknowledgment awaited: getQueueProgress().remaining is 0 in the state it leaves,
\* whatever the clients have or have not reported.
C18_ClearQueueImmediate ==
    [][lastBroadcast' # lastBroadcast /\ lastBroadcast'.message.type = "clear-queue" =>
          /\ lastBroadcast'.message = [type |-> "clear-queue"]
          /\ lastBroadcast'.to = { c \in DOMAIN clients : clients[c] = "OPEN" }
          /\ clients' = clients
          /\ queueSize' = 0
          /\ GetQueueProgress'.remaining = 0]_vars

\* clearQueue() was the last broadcast, sent to the open client and not to the
\* closing one, with two dispatches that no client has reported: remaining is 0.
C18_Witness ==
    /\ lastBroadcast.message.type = "clear-queue"
    /\ lastBroadcast.to = { "c1" }
    /\ HasKey(clients, "c2")
    /\ hCleared
    /\ hEnqueued = 2
    /\ hOutstanding = 2
    /\ GetQueueProgress.remaining = 0

-----------------------------------------------------------------------------
(* Claims about non-final gift messages, checked under SpecDedup *)

\* C19: a GIFT message that is not final (repeatEnd present and false) never emits
\* giftFinal and leaves the dedup map as it was, so the later final message of the
\* same (userId, giftId, repeatCount) is forwarded unless a final message of that
\* triple was itself forwarded less than DEDUP_WINDOW_MS before.
C19_NonFinalLeavesNoTrace ==
    /\ [][hGifts' = hGifts + 1 /\ lastGift'.repeatEnd = "false" =>
             /\ ~lastGift'.forwarded
             /\ recentGifts' = recentGifts
             /\ hEvents' = hEvents
             /\ renderer' = renderer
             /\ queueSize' = queueSize]_vars
    /\ [](hGifts > 0 /\ lastGift.repeatEnd # "false" /\ hPrevForward = 0 =>
             lastGift.forwarded)

\* A non-final message of a triple was handled, and then the final message of the
\* same triple, the first final one of that triple, was forwarded.
C19_Witness ==
    /\ << lastGift.userId, lastGift.giftId, lastGift.repeatCount >> \in hNonFinal
    /\ lastGift.repeatEnd = "true"
    /\ lastGift.forwarded
    /\ hPrevForward = 0
    /\ Len(hEvents) = 1

-----------------------------------------------------------------------------
(* Claims about a mapping changed during a repeat schedule, checked under SpecRemap *)

\* C20: disabling or deleting a gift's mapping leaves the repeat timers that are
\* already installed as they are, and those timers go on dispatching whatever the
\* store now says: an event with giftCount N > 1 whose timer was installed has
\* dispatched exactly as many times as its timer has counted, and exactly
\* min(N, 20) times once its timer has cleared itself.
C20_RemapKeepsSchedule ==
    /\ [][store'.giftAudioMappings # store.giftAudioMappings => timers' = timers]_vars
    /\ [](\A e \in DOMAIN hEvents :
             /\ HasKey(timers, e) => hEvents[e].dispatched = timers[e].played
             /\ hEvents[e].remapped > 0 /\ ~HasKey(timers, e) =>
                   hEvents[e].dispatched = Min(hEvents[e].giftCount, 20))

\* A gift of 21 whose mapping was disabled or deleted after its third dispatch:
\* the store no longer has an enabled mapping, and the event came to 20 dispatches.
C20_Witness ==
    \E e \in DOMAIN hEvents :
        /\ hEvents[e].giftCount = 21
        /\ hEvents[e].remapped = 3
        /\ ~MappingEnabled(GetGiftAudio(hEvents[e].giftId))
        /\ ~HasKey(timers, e)
        /\ hEvents[e].dispatched = 20

-----------------------------------------------------------------------------
(* Claims about mappings without audio entries, checked under SpecGift *)

C21_NoPathPlaysNothing ==
    \A e \in 1 .. Len(hEvents) :
        hEvents[e].mapping = "enabled" /\ ~hEvents[e].hasPath =>
            /\ hEvents[e].dispatched = 0
            /\ ~HasKey(timers, e)
            /\ hEvents[e].after = hEvents[e].before
            /\ hEvents[e].delivered = (hEvents[e].win = "open")
\* C22: the service makes a connection attempt only inside connect(). When the upstream
\* connection drops, the status becomes 'disconnected' and a status event with it is
\* emitted; when a connect attempt fails, the status becomes 'error' and a status
\* event and an error message are emitted. Neither step, nor any other step than a
\* connect() call, makes a new TikTokLiveConnection, so there are never more
\* attempts than connect() calls.
C22_NoReconnectByItself ==
    /\ [][hFeed'.dropped = hFeed.dropped + 1 =>
             /\ tiktok'.status = "disconnected"
             /\ Emits(emitted', StatusEvent("disconnected"))
             /\ Len(attempts') = Len(attempts)]_vars
    /\ [][hFeed'.failed = hFeed.failed + 1 =>
             /\ tiktok'.status = "error"
             /\ Emits(emitted', StatusEvent("error"))
             /\ \E i \in 1 .. Len(emitted') : emitted'[i].event = "error"
             /\ Len(attempts') = Len(attempts)]_vars
    /\ [][Len(attempts') # Len(attempts) =>
             /\ hFeed'.calls = hFeed.calls + 1
             /\ Len(attempts') = Len(attempts) + 1]_vars
    /\ [](Len(attempts) = hFeed.calls)

\* The first attempt failed, connect() was called again, and that connection dropped:
\* two attempts for two calls, nothing connecting.
C22_Witness ==
    /\ hFeed.calls = 2
    /\ hFeed.failed = 1
    /\ hFeed.dropped = 1
    /\ hFeed.last = "drop"
    /\ tiktok.status = "disconnected"
    /\ tiktok.connection = 2
    /\ attempts = << "closed", "closed" >>
\* C23: the dedup entry of a key is the time of the last forwarded event of that key
\* and a dropped duplicate does not refresh it. A forwarded event comes at least
\* 5000 ms after the previous forwarded event of its key, and a terminal event that
\* comes 5000 ms or more after the last forwarded event of its key is forwarded,
\* whatever was dropped in between.
C23_EntryIsLastForward ==
    /\ [](\A triple \in DOMAIN hForwardAt :
              LET key == DedupKey(triple[1], triple[2], triple[3])
              IN  HasKey(recentGifts, key) => recentGifts[key] = hForwardAt[triple])
    /\ [][hGifts' = hGifts + 1 /\ lastGift'.final /\ ~lastGift'.forwarded =>
             recentGifts' = recentGifts]_vars
    /\ [][hGifts' = hGifts + 1 /\ lastGift'.final =>
             LET triple == << lastGift'.userId, lastGift'.giftId, lastGift'.repeatCount >>
             IN  HasKey(hForwardAt, triple) =>
                     /\ lastGift'.forwarded => now - hForwardAt[triple] >= DEDUP_WINDOW_MS
                     /\ now - hForwardAt[triple] >= DEDUP_WINDOW_MS => lastGift'.forwarded]_vars

\* A key forwarded, its duplicate dropped 2499 ms later, and the third event of the
\* key forwarded 5000 ms after the first; the entry holds the time of the third.
C23_Witness ==
    \E triple \in DOMAIN hDecisions :
        /\ hDecisions[triple] = << TRUE, FALSE, TRUE >>
        /\ hForwardAt[triple] = ClockStart + 5000
        /\ recentGifts[DedupKey(triple[1], triple[2], triple[3])] = ClockStart + 5000
        /\ lastGift.at - hPrevForward = DEDUP_WINDOW_MS
-----------------------------------------------------------------------------
(* Claims about playlists of several files, checked under SpecPlaylist *)

\* The playlist captured by event e.
PlaylistOf(e) == hEvents[e].stored.audioFiles

\* A terminal message for the gift of the playlist would be forwarded and played now.
GiftPlayable(giftCount) ==
    /\ ~quit
    /\ Len(hEvents) < MaxEvents
    /\ hGifts < MaxGifts
    /\ ~IsDuplicateGift(DedupKey(<< "7" >>, Gift99, giftCount))
    /\ MappingEnabled(GetGiftAudio(Gift99))
    /\ Len(GetGiftAudio(Gift99).audioFiles) > 1

\* The repeat timer of event e is due with plays left and a playlist of several files.
RepeatDue(e) ==
    /\ ~quit
    /\ HasKey(timers, e)
    /\ timers[e].due <= now
    /\ timers[e].played < timers[e].repeatCount
    /\ Len(timers[e].audioFiles) > 1

\* C24 (as amended): for a playlist of k > 1 entries every dispatch of a gift event,
\* the first and each repeat, draws from all k entries whatever was drawn before,
\* and carries the path of the entry it selected, the duration
\* stored for that file, and as volume the library volume of that file times the
\* globalVolume read when the gift was handled (not the entry's own volume).
C24_IndependentDraws ==
    /\ \A giftCount \in PlaylistCounts :
          GiftPlayable(giftCount) =>
              RandomIndexes(GetGiftAudio(Gift99).audioFiles)
                  = 1 .. Len(GetGiftAudio(Gift99).audioFiles)
    /\ \A e \in DOMAIN timers :
          RepeatDue(e) =>
              RepeatIndexes(timers[e].audioFiles) = 1 .. Len(timers[e].audioFiles)
    /\ (hLastDispatch.event > 0 /\ Len(PlaylistOf(hLastDispatch.event)) > 1) =>
          LET files == PlaylistOf(hLastDispatch.event)
              id == AudioIdOf(hLastDispatch.path)
          IN  /\ hLastDispatch.drawn \in 1 .. Len(files)
              /\ hLastDispatch.path = files[hLastDispatch.drawn].path
              /\ hLastDispatch.duration = GetAudioDuration(id)
              /\ hLastDispatch.duration > 0 =>
                    /\ Len(pendingDurations) > 0
                    /\ pendingDurations[Len(pendingDurations)] = hLastDispatch.duration
              /\ hLastDispatch.volume =
                    hLastDispatch.library * hEvents[hLastDispatch.event].globalVolume
              /\ lastBroadcast.message.volume = hLastDispatch.volume

\* The third dispatch of a gift of 3 drew the first entry after the second entry had
\* been drawn twice: a.mp3 (entry volume 0.5, library volume 0.8, 1.4 s) is played
\* at 0.32 after two plays of b.mp3 (1.2 s each).
C24_Witness ==
    /\ hLastDispatch.index = 3
    /\ hLastDispatch.drawn = 1
    /\ hLastDispatch.path = PathA
    /\ hLastDispatch.volume = 80 * 40
    /\ pendingDurations = << 12, 12, 14 >>

\* C24 (as claimed): each dispatch carries the path, the volume and the duration of
\* the entry it selected, the volume being the entry's own volume under globalVolume.
C24_CarriesEntryVolume ==
    (hLastDispatch.event > 0 /\ Len(PlaylistOf(hLastDispatch.event)) > 1) =>
        LET files == PlaylistOf(hLastDispatch.event)
        IN  /\ hLastDispatch.drawn \in 1 .. Len(files)
            /\ hLastDispatch.path = files[hLastDispatch.drawn].path
            /\ hLastDispatch.duration = GetAudioDuration(AudioIdOf(hLastDispatch.path))
            /\ hLastDispatch.volume =
                  files[hLastDispatch.drawn].volume
                     * hEvents[hLastDispatch.event].globalVolume
-----------------------------------------------------------------------------
(* Claims about overlapping repeat schedules, checked under SpecOverlap *)

\* min(N, 20) summed over the gift events handled so far.
ExpectedPlays ==
    SumSeq([e \in 1 .. Len(hEvents) |-> Min(hEvents[e].giftCount, 20)])

\* C25: when the repeat schedules of two gift events overlap, every dispatch is one
\* playAudio call that raises queueSize and totalInBatch by one each, and once both
\* schedules have finished, with no audio-ended received, each event has made
\* min(N, 20) dispatches and queueSize and totalInBatch both equal the sum
\* min(N1, 20) + min(N2, 20).
C25_OverlapTotals ==
    /\ [][hEnqueued' # hEnqueued =>
             /\ hEnqueued' = hEnqueued + 1
             /\ queueSize' = queueSize + 1
             /\ totalInBatch' = totalInBatch + 1]_vars
    /\ [](Len(hEvents) >= 2 /\ DOMAIN timers = {} =>
             /\ \A e \in 1 .. Len(hEvents) :
                   hEvents[e].dispatched = Min(hEvents[e].giftCount, 20)
             /\ hEnqueued = ExpectedPlays
             /\ queueSize = ExpectedPlays
             /\ totalInBatch = ExpectedPlays)

\* A gift of 2 arrived after 5 of the 20 plays of a gift of 21; both schedules have
\* finished and 22 items are queued.
C25_Witness ==
    /\ Len(hEvents) = 2
    /\ hEvents[1].giftCount = 21
    /\ hEvents[2].giftCount = 2
    /\ hEvents[2].before[5] = 5
    /\ DOMAIN timers = {}
    /\ queueSize = 22
    /\ totalInBatch = 22
\* C26: the interval of a gift event with N > 1 fires every 250 ms, each firing
\* before the last issuing one play; it is cleared on the firing after its
\* min(N, 20) - 1 further plays, no dispatch of the event occurs once it is cleared,
\* and every interval that was started is eventually cleared.
C26_TimerTerminates ==
    /\ [][\A e \in DOMAIN timers :
             /\ HasKey(timers', e) /\ timers'[e] # timers[e] =>
                   /\ now = timers[e].due
                   /\ timers'[e].due = timers[e].due + 250
                   /\ timers'[e].played = timers[e].played + 1
                   /\ hEvents'[e].dispatched = hEvents[e].dispatched + 1
             /\ ~HasKey(timers', e) =>
                   /\ hEvents[e].giftCount > 1
                   /\ hEvents[e].dispatched = Min(hEvents[e].giftCount, 20)
                   /\ now = hEvents[e].at + 250 * Min(hEvents[e].giftCount, 20)
                   /\ hEnqueued' = hEnqueued]_vars
    /\ [][\A e \in 1 .. Len(hEvents) :
             hEvents'[e].dispatched # hEvents[e].dispatched => HasKey(timers, e)]_vars
    /\ [][\A e \in 1 .. Len(hEvents) : ~HasKey(timers, e) => ~HasKey(timers', e)]_vars
    /\ \A e \in 1 .. MaxEvents + 1 : HasKey(timers, e) ~> ~HasKey(timers, e)

\* The interval of a gift of 21 was cleared 5000 ms after the gift, after 20 plays.
C26_Witness ==
    /\ Len(hEvents) >= 1
    /\ hEvents[1].giftCount = 21
    /\ hEvents[1].dispatched = 20
    /\ ~HasKey(timers, 1)
    /\ now = hEvents[1].at + 5000
-----------------------------------------------------------------------------
(* Claims about the order of playback on a page, checked under SpecPage *)

\* The dispatch numbers of the play-audio commands client c has not handled yet.
OnWire(c) ==
    { wire[c][i].n : i \in { j \in 1 .. Len(wire[c]) : wire[c][j].type = "play-audio" } }

\* The dispatch numbers waiting in the audioQueue of client c.
Queued(c) == { page[c].audioQueue[i].n : i \in 1 .. Len(page[c].audioQueue) }

\* The step starts an item on client c: playAudio made a new element current.
StartsItem(c) ==
    /\ page'[c].currentAudio # 0
    /\ page'[c].currentAudio # page[c].currentAudio

\* C27: a client starts its items in dispatch order. The commands waiting on a
\* client are in dispatch order; the item a step starts was dispatched before every
\* command still waiting in the audioQueue or on the socket and after every item
\* started before; and playback begins only for the item started last.
C27_PlaysInDispatchOrder ==
    /\ [](\A c \in DOMAIN page :
             /\ \A i, j \in 1 .. Len(page[c].audioQueue) :
                   i < j => page[c].audioQueue[i].n < page[c].audioQueue[j].n
             /\ \A i, j \in 1 .. Len(wire[c]) :
                   (i < j /\ wire[c][i].type = "play-audio"
                          /\ wire[c][j].type = "play-audio") =>
                       wire[c][i].n < wire[c][j].n
             /\ \A q \in Queued(c), w \in OnWire(c) : q < w
             /\ \A n \in DOMAIN page[c].elements :
                   \A x \in Queued(c) \cup OnWire(c) : n < x)
    /\ [][\A c \in DOMAIN page :
             StartsItem(c) =>
                 LET n == page'[c].currentAudio
                 IN  /\ n \in Queued(c) \cup OnWire(c)
                     /\ \A x \in (Queued(c) \cup OnWire(c)) \ {n} : n < x
                     /\ \A k \in DOMAIN page[c].elements : k < n
                     /\ page[c].currentAudio < n]_vars
    /\ [][\A c \in DOMAIN page : \A n \in DOMAIN page[c].elements :
             (/\ ~page[c].elements[n].started
              /\ HasKey(page'[c].elements, n)
              /\ page'[c].elements[n].started) =>
                 /\ n = page[c].currentAudio
                 /\ \A k \in DOMAIN page[c].elements : k <= n]_vars

\* Three dispatches and no clear-queue: the second item plays after the first, the
\* third waits behind it.
C27_Witness ==
    /\ hEnqueued = 3
    /\ ~hCleared
    /\ page["c1"].currentAudio = 2
    /\ HasKey(page["c1"].elements, 2)
    /\ page["c1"].elements[2].started
    /\ Queued("c1") = { 3 }
    /\ OnWire("c1") = {}
-----------------------------------------------------------------------------
(* Claims about the normalization of stored mappings, checked under SpecNormalize *)

\* The mapping was stored with a bare audioPath, no audioFiles and a scalar volume.
BareAudioPath(m) == m.audioPath # << >> /\ ~m.hasAudioFiles /\ m.hasVolume

\* C28: getSettings turns a mapping stored with a bare audioPath, no audioFiles and
\* a scalar volume in [0, 1], 0 included, into a playlist of one entry with that path
\* and that volume, and normalizing the result again changes nothing.
C28_LegacyVolumeKept ==
    settingsRead.read =>
        /\ (BareAudioPath(settingsRead.from)
               /\ settingsRead.from.volume >= 0 /\ settingsRead.from.volume <= 100) =>
              settingsRead.mapping.audioFiles =
                  << [path |-> settingsRead.from.audioPath,
                      volume |-> settingsRead.from.volume] >>
        /\ NormalizeMapping(settingsRead.mapping) = settingsRead.mapping

\* The same for the former volumes above 0: the path and the volume are kept, and a
\* mapping that was read, saved and read again comes back unchanged.
C28_NonZeroVolumeKept ==
    settingsRead.read =>
        /\ (BareAudioPath(settingsRead.from) /\ settingsRead.from.volume > 0) =>
              settingsRead.mapping.audioFiles =
                  << [path |-> settingsRead.from.audioPath,
                      volume |-> settingsRead.from.volume] >>
        /\ NormalizeMapping(settingsRead.mapping) = settingsRead.mapping
        /\ NormalizeMapping(settingsRead.from) = settingsRead.mapping
-----------------------------------------------------------------------------
(* Claims about deleting a file of the library, checked under SpecDelete *)

\* The path of a playlist entry, whatever its format.
EntryPath(file) == IF IsString(file) THEN file.string ELSE file.path

\* The entries of a playlist that do not name the path, in their order.
EntriesWithout(files, audioPath) ==
    SelectSeq(files, LAMBDA file : EntryPath(file) # audioPath)

\* C29: once deleteFile has removed a file, no playlist of any mapping has an entry
\* with the file's path; the step keeps every mapping record, possibly with an empty
\* playlist, and in every mapping leaves the other entries, their order, the enabled
\* flag and the other fields unchanged. A deleteFile that removed nothing changes no
\* mapping.
C29_DeleteCleansPlaylists ==
    /\ [](renderer.deleted.result =>
             \A k \in DOMAIN store.giftAudioMappings :
                 \A i \in 1 .. Len(store.giftAudioMappings[k].audioFiles) :
                     EntryPath(store.giftAudioMappings[k].audioFiles[i])
                        # LibraryPath(renderer.deleted.filename))
    /\ [][store' # store =>
             /\ renderer'.deleted.result
             /\ DOMAIN store'.giftAudioMappings = DOMAIN store.giftAudioMappings
             /\ \A k \in DOMAIN store.giftAudioMappings :
                   LET old == store.giftAudioMappings[k]
                       new == store'.giftAudioMappings[k]
                   IN  /\ new.audioFiles =
                             EntriesWithout(old.audioFiles,
                                            LibraryPath(renderer'.deleted.filename))
                       /\ new.enabled = old.enabled
                       /\ new.audioPath = old.audioPath
                       /\ new.giftId = old.giftId
                       /\ new.giftName = old.giftName
             /\ [store' EXCEPT !.giftAudioMappings = store.giftAudioMappings] = store]_vars

\* b.MP3 was deleted: the playlist b, a, b of gift 99 is left with a alone, and the
\* playlist of bare paths of the other mapping with the path of a.
C29_Witness ==
    /\ renderer.deleted = [filename |-> FileB, result |-> TRUE]
    /\ store.giftAudioMappings[Gift99].audioFiles = << [path |-> PathA, volume |-> 50] >>
    /\ store.giftAudioMappings[OtherGift].audioFiles = << StringEntry(PathA) >>
    /\ ~store.giftAudioMappings[OtherGift].enabled
-----------------------------------------------------------------------------
(* Claims about the pending durations of the tracker, checked under SpecQueue *)

\* C30: in every reachable state pendingDurations has exactly queueSize entries, so
\* that getQueueProgress().estimatedSeconds is the rounded sum of the durations of
\* exactly the `remaining` outstanding items, after any interleaving of playAudio,
\* audio-ended and clearQueue().
C30_FifoMatchesQueueSize ==
    /\ Len(pendingDurations) = queueSize
    /\ GetQueueProgress.remaining = Len(pendingDurations)
    /\ GetQueueProgress.estimatedSeconds = RoundTenths(SumSeq(pendingDurations))

\* The same as long as clearQueue() has not been called.
C30_FifoMatchesUntilClear ==
    ~hCleared =>
        /\ Len(pendingDurations) = queueSize
        /\ GetQueueProgress.remaining = Len(pendingDurations)
        /\ GetQueueProgress.estimatedSeconds = RoundTenths(SumSeq(pendingDurations))
-----------------------------------------------------------------------------
(* Claims about the progress the tracker reports, checked under SpecQueue *)

\* clearQueue() was called and playAudio has not been called since: both broadcast,
\* and nothing else does.
ClearedSincePlay == lastBroadcast.message.type = "clear-queue"

\* C31: after clearQueue() and until the next playAudio, getQueueProgress() returns
\* {current: 0, total: 0, remaining: 0, estimatedSeconds: 0}, the progress the
\* control window sets for itself after a clear.
C31_ProgressZeroAfterClear ==
    ClearedSincePlay =>
        GetQueueProgress = [current |-> 0, total |-> 0, remaining |-> 0,
                            estimatedSeconds |-> 0]

\* What the control window requires of a progress record.
ProgressInRange(p) == 0 <= p.current /\ p.current <= p.total /\ p.remaining >= 0

\* C32: every queueProgress event emitted and every value getQueueProgress() returns
\* has 0 <= current <= total and remaining >= 0, after any sequence of playAudio,
\* clearQueue and audio-ended messages, those arriving while the tracker is idle or
\* sent by several clients for one item included.
C32_ProgressInRange ==
    /\ ProgressInRange(queueProgressEvent)
    /\ ProgressInRange(GetQueueProgress)

\* The values getQueueProgress() returns are in that range.
C32_ReturnedProgressInRange == ProgressInRange(GetQueueProgress)
-----------------------------------------------------------------------------
(* Claims about a cleared queue and the reports still under way, checked under *)
(* SpecSocket                                                                  *)

\* The server takes the next audio-ended of client c in this step.
TakesEnded(c) ==
    /\ Len(uplink[c]) > 0
    /\ uplink'[c] = Tail(uplink[c])
    /\ hBatch'.ended = hBatch.ended + 1

\* The current batch was started after the last clearQueue() and is not drained.
BatchAfterClear ==
    /\ hBatch.clearedAt > 0
    /\ hBatch.items # {}
    /\ \A n \in hBatch.items : n > hBatch.clearedAt
    /\ queueSize > 0

\* C33: an audio-ended for an item dispatched before a clearQueue() leaves the
\* accounting of a batch started after that clearQueue() as it is: remaining goes
\* down only for completions of the batch's own items.
C33_StaleReportIgnored ==
    [][\A c \in ClientIds :
          (TakesEnded(c) /\ BatchAfterClear /\ Head(uplink[c]).n <= hBatch.clearedAt)
              => /\ queueSize' = queueSize
                 /\ totalInBatch' = totalInBatch
                 /\ currentPlaying' = currentPlaying]_vars
-----------------------------------------------------------------------------
(* Claims about the reports of one page, checked under SpecPage, where the *)
(* socket stays open and the server reads no report                        *)

\* The audio-ended messages client c has sent for item n. Each is sent by a
\* completion callback, which also calls onEnded() once.
ReportsOf(c, n) == { i \in 1 .. Len(uplink[c]) : uplink[c][i].n = n }

\* C34: for every item a client started while its connection is open, the client
\* sends exactly one audio-ended and advances its queue once, whichever of the
\* ended event, the error event and the rejected play() promise fire for the item;
\* in particular no item is reported, and the queue advanced for it, twice.
C34_OneReportPerItem ==
    \A c \in ClientIds : \A n \in 1 .. hEnqueued : Cardinality(ReportsOf(c, n)) <= 1
-----------------------------------------------------------------------------
(* Claims about the URLs playAudio broadcasts, checked under SpecQueue *)

\* The URL has the form /audio/<token> with a token of the token table.
ServedUrl(url, table) ==
    /\ Len(url) > Len(AudioRoute)
    /\ SubSeq(url, 1, Len(AudioRoute)) = AudioRoute
    /\ RouteParam(url) \in DOMAIN table

\* C35: every play-audio command that playAudio broadcasts and counts carries an
\* audioUrl /audio/<token> whose token is in the token table at that moment, and a
\* call of playAudio with a path that registerAudioFile rejects broadcasts nothing
\* and leaves the counters as they are.
C35_BroadcastUrlServed ==
    [][hEnqueued' = hEnqueued + 1 =>
          IF HasAudioExtension(lastRegistered'.path)
          THEN /\ lastBroadcast'.message.type = "play-audio"
               /\ ServedUrl(lastBroadcast'.message.audioUrl, audioFiles')
          ELSE /\ lastBroadcast' = lastBroadcast
               /\ queueSize' = queueSize
               /\ totalInBatch' = totalInBatch
               /\ pendingDurations' = pendingDurations]_vars

\* The half of it about the paths registerAudioFile accepts.
C35_AcceptedUrlServed ==
    [][(hEnqueued' = hEnqueued + 1 /\ HasAudioExtension(lastRegistered'.path)) =>
          /\ lastBroadcast'.message.type = "play-audio"
          /\ ServedUrl(lastBroadcast'.message.audioUrl, audioFiles')
          /\ audioFiles'[RouteParam(lastBroadcast'.message.audioUrl)] =
                 lastRegistered'.path]_vars
-----------------------------------------------------------------------------
(* Claims about the dedup map across upstream connections, checked under *)
(* SpecReconnect                                                         *)

\* The step is a connect() or disconnect() call or a step of a connection.
FeedStep == hFeed'.calls # hFeed.calls \/ hFeed'.last # hFeed.last
               \/ attempts' # attempts \/ tiktok' # tiktok

\* C36: the dedup map outlives the upstream connections. connect() and disconnect()
\* leave the map as it is, and a terminal event that arrives less than 5000 ms after
\* the forwarded event of its key is dropped, whichever connection delivers it.
C36_DedupOutlivesConnection ==
    /\ [][FeedStep => recentGifts' = recentGifts]_vars
    /\ [][hGifts' = hGifts + 1 /\ lastGift'.final =>
             LET triple == << lastGift'.userId, lastGift'.giftId, lastGift'.repeatCount >>
             IN  (HasKey(hForwardAt, triple)
                     /\ now - hForwardAt[triple] < DEDUP_WINDOW_MS)
                 => ~lastGift'.forwarded]_vars

\* A terminal event forwarded on the first connection is redelivered on the second,
\* after a disconnect() and a connect(), 2499 ms later, and is dropped.
C36_Witness ==
    /\ hFeed.forwardVia = 1
    /\ Len(attempts) >= 2 /\ attempts[1] = "closed" /\ attempts[2] = "open"
    /\ tiktok.connection = 2
    /\ lastGift.final /\ ~lastGift.forwarded
    /\ lastGift.at = ClockStart + 2499
    /\ \E triple \in DOMAIN hDecisions : hDecisions[triple] = << TRUE, FALSE >>
-----------------------------------------------------------------------------
(* Claims about the sweep of the dedup map, checked under SpecDedup *)

\* The triples of the messages the feed can deliver.
FeedTriples ==
    { << gift[1], gift[2], RepeatCountOf(raw) >> : gift \in FeedGifts, raw \in FeedRepeatCounts }

\* The time of the last forwarded event with this dedup key, 0 when there is none:
\* the entry of a map that is never swept.
LastForwardOf(key) ==
    LET times == { hForwardAt[t] : t \in { x \in DOMAIN hForwardAt :
                                              DedupKey(x[1], x[2], x[3]) = key } }
    IN  IF times = {} THEN 0 ELSE CHOOSE m \in times : \A x \in times : x <= m

\* isDuplicateGift's answer if the sweep never ran.
UnsweptDuplicate(key) ==
    LastForwardOf(key) # 0 /\ WithinDedupWindow(now, LastForwardOf(key))

\* The step is a run of the sweep that evicted something.
SweepStep == hGifts' = hGifts /\ recentGifts' # recentGifts

\* C37: the sweep never changes a forward decision. Every terminal event is forwarded
\* or dropped exactly as a map that is never swept would decide, and a run of the
\* sweep changes the answer of isDuplicateGift for no key.
C37_SweepKeepsDecisions ==
    /\ [][hGifts' = hGifts + 1 /\ lastGift'.final =>
             lastGift'.forwarded =
                 ~UnsweptDuplicate(DedupKey(lastGift'.userId, lastGift'.giftId,
                                            lastGift'.repeatCount))]_vars
    /\ [][SweepStep =>
             \A triple \in FeedTriples :
                 LET key == DedupKey(triple[1], triple[2], triple[3])
                 IN  IsDuplicateGift(key)' = IsDuplicateGift(key)]_vars
    /\ [](\A triple \in FeedTriples :
             LET key == DedupKey(triple[1], triple[2], triple[3])
             IN  IsDuplicateGift(key) = UnsweptDuplicate(key))

\* A terminal event arrives after the sweep evicted the entry of its key, forwarded
\* earlier: it is forwarded, as it would be with the entry still there.
C37_Witness ==
    /\ lastGift.final /\ lastGift.forwarded
    /\ ~lastGift.known
    /\ hPrevForward # 0
    /\ lastGift.at - hPrevForward > DEDUP_WINDOW_MS + 1000
-----------------------------------------------------------------------------
(* Claims about dispatches after a file was deleted, checked under SpecDeletePlay *)

\* The last audioLibrary:delete returned true for the file with this path.
Deleted(path) ==
    renderer.deleted.result /\ LibraryPath(renderer.deleted.filename) = path

\* C38: once deleteFile returned true for a file, no play-audio command dispatched
\* afterwards names that file's path, the repeats of gift events already under way
\* and mappings that still carry a legacy audioPath included.
C38_NoDispatchOfDeleted ==
    [][hEnqueued' = hEnqueued + 1 => ~Deleted(lastRegistered'.path)]_vars

\* The same for the first dispatch of a gift event whose mapping has a playlist.
C38_NoFirstDispatchFromPlaylist ==
    [][(hEnqueued' = hEnqueued + 1 /\ Len(hEvents') = Len(hEvents) + 1
           /\ Len(GetGiftAudio(Gift99).audioFiles) > 0)
          => ~Deleted(lastRegistered'.path)]_vars
-----------------------------------------------------------------------------
(* Claims about the test trigger, checked under SpecTest *)

\* Some enabled mapping with this name, compared without case, has audio configured,
\* as a playlist or as a legacy audioPath.
TestableGift(giftName) ==
    \E k \in DOMAIN store.giftAudioMappings :
        LET mapping == store.giftAudioMappings[k]
        IN  /\ ToLowerCase(mapping.giftName) = ToLowerCase(giftName)
            /\ mapping.enabled
            /\ (Len(mapping.audioFiles) > 0 \/ mapping.audioPath # << >>)

\* The step is a call of test:triggerGift.
TestStep ==
    testResult'.called /\ (testResult' # testResult \/ Len(hEvents') # Len(hEvents))

\* C39: test:triggerGift(name) returns true and emits a giftFinal event with
\* giftCount 3 whenever some enabled mapping whose giftName equals name without case
\* has audio configured, as a playlist or as a legacy audioPath; otherwise it returns
\* false and emits nothing.
C39_TestTriggersConfiguredGift ==
    [][TestStep =>
          IF TestableGift(testResult'.giftName)
          THEN /\ testResult'.result
               /\ Len(hEvents') = Len(hEvents) + 1
               /\ hEvents'[Len(hEvents')].giftCount = 3
          ELSE /\ ~testResult'.result
               /\ hEvents' = hEvents]_vars

\* The same with the legacy audioPath as the only form of configured audio.
C39_TestTriggersLegacyPath ==
    [][TestStep =>
          IF TestMatchIds(testResult'.giftName) # {}
          THEN /\ testResult'.result
               /\ Len(hEvents') = Len(hEvents) + 1
               /\ hEvents'[Len(hEvents')].giftCount = 3
               /\ hEvents'[Len(hEvents')].giftId = FirstTestMatch(testResult'.giftName)
          ELSE /\ ~testResult'.result
               /\ hEvents' = hEvents]_vars
-----------------------------------------------------------------------------
(* Claims about the status of the service across disconnect(), checked under *)
(* SpecFeed                                                                   *)

\* C40: the status is 'connected' or 'connecting' only while a connection object is
\* held, and once disconnect() has completed the status stays 'disconnected' until
\* the next connect() call, also when a connect() that was pending at the disconnect
\* resolves or rejects later.
C40_DisconnectedUntilConnect ==
    /\ [](tiktok.status \in { "connected", "connecting" } => tiktok.connection # 0)
    /\ [][(tiktok.connection = 0 /\ tiktok.status = "disconnected"
              /\ hFeed'.calls = hFeed.calls)
            => tiktok'.status = "disconnected"]_vars

\* The half of it about the connection object.
C40_ActiveStatusHoldsConnection ==
    tiktok.status \in { "connected", "connecting" } => tiktok.connection # 0

=============================================================================
